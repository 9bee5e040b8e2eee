----------------------------- MODULE PlaneTest -----------------------------
(***************************************************************************)
(* The program plane_test.c: it finds an overlay plane of the CRTC for     *)
(* each plane its arguments describe, taking the planes as the card lists  *)
(* them, and for ten seconds moves and scales them over the screen.  Both  *)
(* axes of the screen are alike, and modelled as a set.  The source        *)
(* rectangle never changes (no option sets src_vx or src_vy).              *)
(***************************************************************************)
EXTENDS Integers, Sequences, FiniteSets

CONSTANTS
  Null,
  Axes,         \* of the screen
  Display,      \* its size: mode.hdisplay and mode.vdisplay
  Speed,        \* dst_vx and dst_vy of a plane that is translated
  Formats,
  Cards,        \* sequences of planes: which the card may have
  Arguments,    \* sequences of options: what may be asked for
  CardFails,    \* whether the reads of find_overlay_planes may fail
  Word,         \* 2^32, or less to check: uint32_t is 0 .. Word - 1
  MaxSteps      \* bound: how often the planes are set in ten seconds

\* Of a plane: can it be on the CRTC, is its type "Overlay", its formats.
PlaneType == [on_crtc : BOOLEAN, overlay : BOOLEAN, formats : SUBSET Formats]

\* -f, -d X,Y, the size of -d or else of the buffer, -t, and DOWN/UP of -c.
OptionsType ==
  [ format : Formats, position : [Axes -> Int] \cup {Null}, size : [Axes -> Nat],
    translate : BOOLEAN, scale : (Nat \X Nat) \cup {Null} ]

ASSUME PlaneTestAssumption ==
  /\ Display \in [Axes -> Nat]
  /\ Speed \in Nat \ {0} /\ \A a \in Axes : Speed <= Display[a]
  /\ Cards \subseteq Seq(PlaneType)
  /\ Arguments \subseteq Seq(OptionsType) \ {<< >>}
  /\ CardFails \in BOOLEAN /\ Word \in Nat \ {0} /\ MaxSteps \in Nat

VARIABLES
  card,         \* the planes of the card: never changes
  argv,         \* what is asked for: never changes
  pc,
  test_planes,  \* struct test_plane: where it is, how it moves, how large it is
  plane_index,  \* in find_overlay_planes
  plane_ids,    \* the planes found, 0 for none
  i, current,   \* steps of the loop, and the test plane that is next
  fbs,          \* the framebuffers there are: of test planes
  shown         \* what the card shows on each plane, Null for nothing

vars == <<card, argv, pc, test_planes, plane_index, plane_ids, i, current, fbs, shown>>

Wanted == DOMAIN argv
PlanesOfCard == DOMAIN card

----------------------------------------------------------------------------
\* A test plane as main sets it up: a position counts from the screen's centre.
Prepared(options) ==
  LET half(a) == Display[a] \div 2
      center  == [a \in Axes |-> IF options.position = Null THEN half(a)
                                 ELSE options.position[a] + half(a)]
  IN [ center |-> center,
       v      |-> [a \in Axes |-> IF options.translate THEN Speed ELSE 0],
       size   |-> options.size,
       dst    |-> [a \in Axes |-> IF options.position = Null
                                  THEN half(a) - options.size[a] \div 2
                                  ELSE options.position[a]] ]

\* Division by a factor DOWN of 0 stops the program, or gives 0 on ARM.
DividesByZero(options) == options.scale # Null /\ options.scale[1] = 0

dst_min(options, a) ==
  IF DividesByZero(options) THEN 0 ELSE options.size[a] \div options.scale[1]
dst_max(options, a) == (options.size[a] * options.scale[2]) % Word

\* dst_min_w + scale_factor * (dst_max_w - dst_min_w), where scale_factor is
\* some number from 0 to 1, the same one for both axes.  The difference is a
\* uint32_t (so it wraps if UP is 0), the sum a float; what that is as a uint32_t
\* is undefined from 2^32 on: 0 or the largest, as the build has it.
ScaledSizes(options) ==
  { [a \in Axes |->
       LET range == (dst_max(options, a) - dst_min(options, a)) % Word
           size  == dst_min(options, a) + (part * range) \div 2
       IN IF size < Word THEN size ELSE beyond] : part \in 0 .. 2, beyond \in {0, Word - 1} }

\* A uint32_t taken for an int32_t.
Signed(n) == ((n + Word \div 2) % Word) - Word \div 2

\* update_test_plane turns back at the edge, one step late.
Outside_FarEdge(center, a) == center > Display[a]
Outside(center, a) == center > Display[a] \/ center < 0
Turned_Doubled(v, center, a) == IF v # 0 /\ Outside(center, a) THEN -v * 2 ELSE v
Turned(v, center, a) == IF v # 0 /\ Outside(center, a) THEN -v ELSE v

Updated(tp, size) ==
  LET center == [a \in Axes |-> tp.center[a] + tp.v[a]]
  IN [ center |-> center,
       v      |-> [a \in Axes |-> Turned(tp.v[a], center[a], a)],
       size   |-> size,
       dst    |-> [a \in Axes |-> Signed(center[a] - size[a] \div 2)] ]

needs_set_WhenMoving(t) ==
  argv[t].scale # Null \/ \E a \in Axes : test_planes[t].v[a] # 0
needs_set(t) ==
  \/ i = 0
  \/ argv[t].scale # Null
  \/ \E a \in Axes : test_planes[t].v[a] # 0

----------------------------------------------------------------------------
Init ==
  /\ card \in Cards /\ argv \in Arguments
  /\ pc = "prepare"
  /\ test_planes = << >>
  /\ plane_index = 1
  /\ plane_ids = [t \in Wanted |-> 0]
  /\ i = 0 /\ current = 1
  /\ fbs = {}
  /\ shown = [p \in PlanesOfCard |-> Null]

\* A buffer or framebuffer is not to be had, or cannot be drawn to: the
\* program returns without cleaning up after itself.
Exit(where) == pc' = where /\ UNCHANGED <<card, argv, test_planes, plane_index,
                                          plane_ids, i, current, fbs, shown>>

PreparePlane ==
  /\ pc = "prepare" /\ Len(test_planes) < Len(argv)
  /\ \/ /\ test_planes' = Append(test_planes, Prepared(argv[Len(test_planes) + 1]))
        /\ fbs' = fbs \cup {Len(test_planes) + 1}
        /\ UNCHANGED <<card, argv, pc, plane_index, plane_ids, i, current, shown>>
     \/ Exit("failed")
     \/ DividesByZero(argv[Len(test_planes) + 1]) /\ Exit("crashed")

Prepare ==
  /\ pc = "prepare" /\ Len(test_planes) = Len(argv)
  /\ Exit("find")

----------------------------------------------------------------------------
\* find_overlay_planes.  It may fail to read what the card has.
NothingToLookAt ==
  /\ CardFails
  /\ pc = "find" /\ plane_index = 1
  /\ Exit("not found")

remaining_out == {t \in Wanted : plane_ids[t] = 0}

\* The first plane still wanted of a format this one has.
Candidates(p) == {t \in remaining_out : argv[t].format \in card[p].formats}
out_index(p) == CHOOSE t \in Candidates(p) : \A u \in Candidates(p) : t <= u

\* What is kept of a plane that is looked at.
Taken_AnyType(p) ==
  IF Candidates(p) # {} /\ card[p].on_crtc
  THEN [plane_ids EXCEPT ![out_index(p)] = p]
  ELSE plane_ids
Taken(p) ==
  IF Candidates(p) # {} /\ card[p].on_crtc /\ card[p].overlay
  THEN [plane_ids EXCEPT ![out_index(p)] = p]
  ELSE plane_ids

LookAtPlane ==
  /\ pc = "find" /\ remaining_out # {} /\ plane_index <= Len(card)
  /\ plane_index' = plane_index + 1
  /\ plane_ids' = Taken(plane_index)
  /\ UNCHANGED <<card, argv, pc, test_planes, i, current, fbs, shown>>

\* drmModeGetPlane fails.
SkipPlane ==
  /\ CardFails
  /\ pc = "find" /\ remaining_out # {} /\ plane_index <= Len(card)
  /\ plane_index' = plane_index + 1
  /\ UNCHANGED <<card, argv, pc, test_planes, plane_ids, i, current, fbs, shown>>

\* The properties of a plane that would do cannot be read: a null pointer is.
NoProperties ==
  /\ CardFails
  /\ pc = "find" /\ plane_index <= Len(card)
  /\ Candidates(plane_index) # {} /\ card[plane_index].on_crtc
  /\ Exit("crashed")

PlanesFound ==
  /\ pc = "find" /\ remaining_out = {}
  /\ Exit("loop") \/ Exit("failed")        \* drmModeSetCrtc

PlanesNotFound ==
  /\ pc = "find" /\ remaining_out # {} /\ plane_index > Len(card)
  /\ Exit("not found")

----------------------------------------------------------------------------
Advance ==
  IF current < Len(argv) THEN current' = current + 1 /\ UNCHANGED i
  ELSE current' = 1 /\ i' = i + 1

\* One test plane is updated and, if that is needed, set.
UpdatePlane ==
  /\ pc = "loop" /\ i < MaxSteps
  /\ LET t == current IN
     \E size \in IF argv[t].scale = Null THEN {test_planes[t].size}
                 ELSE ScaledSizes(argv[t]) :
       /\ test_planes' = [test_planes EXCEPT ![t] = Updated(@, size)]
       /\ \/ /\ needs_set(t)
             /\ shown' = [shown EXCEPT ![plane_ids[t]] =
                            [fb |-> t, dst |-> test_planes'[t].dst, size |-> size]]
             /\ Advance /\ UNCHANGED pc
          \/ /\ needs_set(t)                 \* drmModeSetPlane fails
             /\ pc' = "failed" /\ UNCHANGED <<shown, i, current>>
          \/ ~needs_set(t) /\ Advance /\ UNCHANGED <<shown, pc>>
  /\ UNCHANGED <<card, argv, plane_index, plane_ids, fbs>>

\* Ten seconds have passed.
TimeUp ==
  /\ pc = "loop" /\ current = 1
  /\ Exit("cleanup") \/ Exit("failed")       \* drmModeSetCrtc

CleanUp ==
  /\ pc = "cleanup"
  /\ fbs' = {}
  /\ shown' = [p \in PlanesOfCard |->
                 IF shown[p] # Null /\ shown[p].fb \in fbs THEN Null ELSE shown[p]]
  /\ pc' = "done"
  /\ UNCHANGED <<card, argv, test_planes, plane_index, plane_ids, i, current>>

Next ==
  \/ PreparePlane \/ Prepare
  \/ NothingToLookAt \/ LookAtPlane \/ SkipPlane \/ NoProperties
  \/ PlanesFound \/ PlanesNotFound
  \/ UpdatePlane \/ TimeUp \/ CleanUp

Spec == Init /\ [][Next]_vars

----------------------------------------------------------------------------
TestPlaneType ==
  [ center : [Axes -> Int], v : [Axes -> {-Speed, 0, Speed}], size : [Axes -> Int],
    dst : [Axes -> Int] ]

TypeOK ==
  /\ card \in Cards /\ argv \in Arguments
  /\ pc \in {"prepare", "find", "loop", "cleanup", "done", "failed", "not found", "crashed"}
  /\ test_planes \in Seq(TestPlaneType)
  /\ plane_index \in Nat \ {0}
  /\ plane_ids \in [Wanted -> PlanesOfCard \cup {0}]
  /\ i \in Nat /\ current \in Nat \ {0}
  /\ fbs \subseteq Wanted
  /\ shown \in [PlanesOfCard -> [fb : Wanted, dst : [Axes -> Int], size : [Axes -> Int]]
                                  \cup {Null}]

\* find_overlay_planes gives every test plane an overlay plane of the CRTC that
\* has its format, and no plane twice.
PlanesFit ==
  /\ \A t \in Wanted : plane_ids[t] # 0 =>
       /\ card[plane_ids[t]].on_crtc /\ card[plane_ids[t]].overlay
       /\ argv[t].format \in card[plane_ids[t]].formats
  /\ \A t, u \in Wanted : plane_ids[t] # 0 /\ plane_ids[t] = plane_ids[u] => t = u

\* Between two rounds of the loop the card shows every test plane where and as
\* large as the program has it, those included whose drmModeSetPlane it skipped.
ShownIsCurrent ==
  pc = "loop" /\ current = 1 /\ i > 0 =>
    \A t \in Wanted :
      shown[plane_ids[t]] =
        [fb |-> t, dst |-> test_planes[t].dst, size |-> test_planes[t].size]

\* A plane that is translated and begins with its centre on the screen never
\* has it further outside than one step, and is then on its way back.
StaysNear ==
  \A t \in DOMAIN test_planes : \A a \in Axes :
    argv[t].translate /\ argv[t].position = Null =>
      LET tp == test_planes[t] IN
        /\ tp.center[a] < 0          => tp.v[a] > 0 /\ tp.center[a] + Speed >= 0
        /\ tp.center[a] > Display[a] => tp.v[a] < 0 /\ tp.center[a] - Speed <= Display[a]

----------------------------------------------------------------------------
\* plane_test.c:506, "failed to find overlay planes for given formats": there
\* are none, that is no way to give each format a plane of its own.
FailsOnlyIfNone ==
  pc = "not found" =>
    ~ \E f \in [Wanted -> PlanesOfCard] :
        /\ \A t \in Wanted : /\ card[f[t]].on_crtc /\ card[f[t]].overlay
                             /\ argv[t].format \in card[f[t]].formats
        /\ \A t, u \in Wanted : f[t] = f[u] => t = u
=============================================================================
