---------------------------- MODULE AtomicCases ----------------------------
(***************************************************************************)
(* The test cases of atomictest.c: each is a function from a CRTC's planes *)
(* to the sequence of the calls it makes, for module AtomicTest to carry   *)
(* out.  A for loop over planes is unrolled; a while loop that moves or    *)
(* scales planes ends with a step that goes back.  Formats and patterns    *)
(* are left out.                                                           *)
(***************************************************************************)
EXTENDS Integers, Sequences, SequencesExt

CONSTANTS
  Machines,     \* what query_kms may find
  Crtcs,        \* CRTC indices, 1 .. n
  Planes,       \* plane ids, 1 .. n
  Connectors,   \* connector ids of the card
  Formats       \* formats a plane has, as a number: count_formats

\* What query_kms finds: every plane's type and possible CRTCs, whether it has
\* the optional properties rotation and PLANE_CTM, whether a CRTC has CTM and
\* GAMMA_LUT, which CRTC each connector is lit by before the program runs, and
\* the sizes of the connectors' modes, in order.
PlaneTypes == {"primary", "overlay", "cursor"}
Size == [width : Nat \ {0}, height : Nat \ {0}]
MachineType ==
  [ type     : [Planes -> PlaneTypes],
    crtcs    : [Planes -> SUBSET Crtcs],
    rotation : SUBSET Planes,
    ctm      : SUBSET Planes,
    color    : SUBSET Crtcs,
    lit      : [Connectors -> Crtcs \cup {0}],
    modes    : Seq(Size) ]

\* The elements of s that are in S.
Within(s, S) == FlattenSeq([i \in DOMAIN s |-> IF s[i] \in S THEN << s[i] >> ELSE << >>])

\* crtc->planes, and the planes overlay_idx, primary_idx and cursor_idx name.
PlaneLists ==
  [m \in Machines |-> [c \in Crtcs |->
     Within([p \in Planes |-> p], {p \in Planes : c \in m.crtcs[p]})]]
TypeLists ==
  [m \in Machines |-> [c \in Crtcs |-> [type \in PlaneTypes |->
     Within(PlaneLists[m][c], {p \in Planes : m.type[p] = type})]]]

PlanesOf(m, c) == PlaneLists[m][c]
get_planes(m, c, type) == TypeLists[m][c][type]
Primaries(m, c) == get_planes(m, c, "primary")
Overlays(m, c) == get_planes(m, c, "overlay")
Cursors(m, c) == get_planes(m, c, "cursor")

----------------------------------------------------------------------------
\* A step: what is called, for which plane (0: none), how many steps are passed
\* over, or gone back, when it does not succeed, and its further arguments.
With(op, p, n, arg) == << [op |-> op, plane |-> p, n |-> n, arg |-> arg] >>
Do(op, p, n) == With(op, p, n, << >>)

Each(planes, Steps(_)) == FlattenSeq([i \in DOMAIN planes |-> Steps(planes[i])])

\* The places planes are put.
Rect(x, y, w, h) == [x |-> x, y |-> y, w |-> w, h |-> h]
Full(s) == Rect(0, 0, s.width, s.height)
Corner(w, h) == Rect(0, 0, w, h)

\* BS_ALIGN(size, 2), and >> (j + 1) for the j-th plane of a type, from 1.
Even(size) == 2 * ((size + 1) \div 2)
Part(size, j) ==
  LET shifted[k \in 0 .. j + 1] == IF k = 0 THEN size ELSE shifted[k - 1] \div 2
  IN shifted[j + 1]

CursorSize == 64
VideoSize == 800

\* CHECK_RESULT of an init_plane function and of draw_to_plane.
InitAt(p, n, rect) == With("init", p, n, rect)
Show(p, rect) == InitAt(p, 0, rect) \o Do("draw", p, 0)

\* The same, where a plane that cannot be initialized is passed over.
ShowIfPossible(p, rect, steps) ==
  InitAt(p, Len(steps) + 1, rect) \o Do("draw", p, 0) \o steps

\* The planes of a type, the j-th at places[j].
ShowAll(planes, places) ==
  FlattenSeq([j \in DOMAIN planes |-> Show(planes[j], places[j])])

Nonneg(i) == IF i > 0 THEN i ELSE 0

Commit == Do("test_and_commit", 0, 0)
Disable(p) == Do("disable", p, 0)

MoveBy(p, n, dx, dy) == With("move", p, n, [dx |-> dx, dy |-> dy])

\* while (!move_plane(plane)) test_and_commit
Move(p, dx, dy) == MoveBy(p, 2, dx, dy) \o Commit \o Do("again", 0, 2)

\* while (!scale_plane(plane) && !test_commit) commit
Scale(p, tenths) ==
  With("scale", p, 2, tenths) \o Do("commit_if_possible", 0, 1) \o Do("again", 0, 2)

----------------------------------------------------------------------------
OverlayPlaces(s) ==
  [j \in Planes |-> LET w == Part(s.width, j) h == Part(s.height, j)
                    IN Rect(w, h, w, h)]

test_disable_primary(m, c, s) ==
  Each(Primaries(m, c), LAMBDA p :
    ShowAll(Overlays(m, c), OverlayPlaces(s)) \o Show(p, Full(s)) \o Commit
      \o Disable(p) \o Commit)

test_rgba_primary(m, c, s) ==
  Each(Primaries(m, c), LAMBDA p : Show(p, Full(s)) \o Commit)

test_fullscreen_video(m, c, s) ==
  Each(Primaries(m, c), LAMBDA p : ShowIfPossible(p, Full(s), Commit))

\* All planes but primary ones are moved until none can move.
test_multiple_planes(m, c, s) ==
  LET others  == Within(PlanesOf(m, c), {p \in Planes : m.type[p] # "primary"})
      moves   == Each(others, LAMBDA p : MoveBy(p, 0, 40, 40))
      even    == [j \in Planes |-> LET w == Even(Part(s.width, j))
                                       h == Even(Part(s.height, j))
                                   IN Rect(w, h, w, h)]
      corners == [j \in Planes |-> Rect(Part(s.width, j), Part(s.height, j),
                                        CursorSize, CursorSize)]
  IN Each(Primaries(m, c), LAMBDA p :
       ShowAll(Overlays(m, c), even) \o ShowAll(Cursors(m, c), corners)
         \o Show(p, Full(s)) \o moves \o Commit \o Do("again", 0, Len(others) + 1) \o Commit
         \o Disable(p) \o Commit)

\* Only supported formats; the plane is disabled, not committed, in between.
\* CHECK_RESULT names its argument twice: when pageflip_formats fails, at once
\* or in the end, it is called again, and the case fails whatever that returns.
flip(p, s, failed) ==
  LET shown == InitAt(p, failed, Full(s)) \o Do("draw", p, Nonneg(failed - 1))
                 \o Commit \o Disable(p)
  IN Do("unsupported", 0, Len(shown)) \o shown

pageflip_formats(p, s) ==
  LET each  == Len(flip(p, s, 0))
      first == FlattenSeq([i \in 1 .. Formats |-> flip(p, s, each * (Formats - i + 1) - 1)])
      again == FlattenSeq([i \in 1 .. Formats |-> flip(p, s, 0)])
  IN first \o Do("drop_result", 0, Len(again) + 2) \o Do("failed", 0, 0)
       \o again \o Do("return", 0, 0)

test_overlay_pageflip(m, c, s) ==
  Each(Overlays(m, c), LAMBDA p : pageflip_formats(p, s))
test_primary_pageflip(m, c, s) ==
  Each(Primaries(m, c), LAMBDA p : pageflip_formats(p, s))

\* The planes are made nine or eleven tenths of their size again and again.
test_overlay_scaling(m, c, w, h, tenths) ==
  Each(Overlays(m, c), LAMBDA p :
    Show(p, Corner(w, h)) \o Commit \o Scale(p, tenths) \o Disable(p))
test_overlay_downscaling(m, c, s) ==
  test_overlay_scaling(m, c, Even(s.width \div 2), Even(s.height \div 2), 9)
test_overlay_upscaling(m, c, s) ==
  test_overlay_scaling(m, c, Even(s.width \div 4), Even(s.height \div 4), 11)

test_video_overlay(m, c) ==
  Each(Overlays(m, c), LAMBDA p :
    ShowIfPossible(p, Corner(VideoSize, VideoSize), Move(p, 40, 40)))

test_orientation(m, c, s) ==
  Each(Within(Overlays(m, c) \o Primaries(m, c), m.rotation),
       LAMBDA p : Show(p, Full(s)) \o Commit \o Do("set_props", p, 0) \o Commit
                    \o Disable(p))

\* The first two planes that are no cursors, of as many as there are no cursors.
test_video_underlay(m, c, s) ==
  LET looked == SubSeq(PlanesOf(m, c), 1,
                       Len(Primaries(m, c)) + Len(Overlays(m, c)))
      found  == Within(looked, {p \in Planes : m.type[p] # "cursor"})
  IN IF Len(found) < 2 THEN << >>
     ELSE Show(found[1], Corner(s.width \div 4, s.height \div 4))
            \o Show(found[2], Full(s)) \o Move(found[1], 50, 20)

test_in_fence(m, c, s) ==
  LET p == Primaries(m, c)[1]
  IN InitAt(p, 0, Full(s)) \o Do("timeline", 0, 0) \o Do("draw", p, 0)
       \o Do("in_fence", p, 0) \o Commit \o Do("join", 0, 0) \o Commit
       \o Do("close", p, 0)

test_out_fence(m, c, s) ==
  LET p == Primaries(m, c)[1]
  IN Show(p, Full(s)) \o Do("set_props", p, 0) \o Do("out_fence", 0, 0) \o Commit
       \o Do("check_out_fence", 0, 0)

test_plane_ctm(m, c, s) ==
  LET with(p, draw) == Do("create_blob", p, 0) \o draw \o Commit
                         \o Do("destroy_blob", p, 0)
  IN Each(Within(Overlays(m, c) \o Primaries(m, c), m.ctm),
          LAMBDA p : InitAt(p, 0, Full(s)) \o with(p, Do("draw", p, 0))
                       \o with(p, << >>) \o Disable(p))

test_crtc_ctm(m, c, s) ==
  LET with(planes) == Do("create_blob", 0, 0) \o planes \o Do("destroy_blob", 0, 0)
  IN IF c \notin m.color THEN << >>
     ELSE with(Each(Primaries(m, c), LAMBDA p :
                 Show(p, Full(s)) \o Commit \o Do("detach", p, 0)))
          \o with(Each(Primaries(m, c), LAMBDA p :
                 Do("attach", p, 0) \o Commit \o Disable(p)))

test_crtc_gamma(m, c, s) ==
  LET once == Do("create_blob", 0, 0)
                \o Each(Primaries(m, c), LAMBDA p : Show(p, Full(s)) \o Commit \o Disable(p))
                \o Do("destroy_blob", 0, 0)
  IN IF c \notin m.color THEN << >> ELSE once \o once

\* The array of cases, in its order.
Names ==
  << "disable_primary", "rgba_primary", "fullscreen_video", "multiple_planes",
     "overlay_pageflip", "overlay_downscaling", "overlay_upscaling",
     "primary_pageflip", "video_overlay", "orientation", "video_underlay",
     "in_fence", "out_fence", "plane_ctm", "crtc_ctm", "crtc_gamma" >>

cases(m, c, s, name) ==
  CASE name = "disable_primary"     -> test_disable_primary(m, c, s)
    [] name = "rgba_primary"        -> test_rgba_primary(m, c, s)
    [] name = "fullscreen_video"    -> test_fullscreen_video(m, c, s)
    [] name = "multiple_planes"     -> test_multiple_planes(m, c, s)
    [] name = "overlay_pageflip"    -> test_overlay_pageflip(m, c, s)
    [] name = "overlay_downscaling" -> test_overlay_downscaling(m, c, s)
    [] name = "overlay_upscaling"   -> test_overlay_upscaling(m, c, s)
    [] name = "primary_pageflip"    -> test_primary_pageflip(m, c, s)
    [] name = "video_overlay"       -> test_video_overlay(m, c)
    [] name = "orientation"         -> test_orientation(m, c, s)
    [] name = "video_underlay"      -> test_video_underlay(m, c, s)
    [] name = "in_fence"            -> test_in_fence(m, c, s)
    [] name = "out_fence"           -> test_out_fence(m, c, s)
    [] name = "plane_ctm"           -> test_plane_ctm(m, c, s)
    [] name = "crtc_ctm"            -> test_crtc_ctm(m, c, s)
    [] name = "crtc_gamma"          -> test_crtc_gamma(m, c, s)
=============================================================================
