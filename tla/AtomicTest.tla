----------------------------- MODULE AtomicTest -----------------------------
(***************************************************************************)
(* The program atomictest.c: for every CRTC and every test case chosen it  *)
(* enables the CRTC (tested, not committed), carries out the case, which   *)
(* changes its own copy of the planes' properties, adds them to an atomic  *)
(* request and commits that, then puts everything back.  A request is kept *)
(* as the last value given for each object, Null for none, which is what   *)
(* libdrm makes of its list of properties.                                 *)
(***************************************************************************)
EXTENDS AtomicCases, FiniteSets, Functions

CONSTANTS
  Null,
  Chosen,       \* the arguments of -t considered: names of cases, "all"
  MayRefuse,    \* whether the driver may refuse a request that is in order
  Farthest      \* bound: a position from which planes are moved no further

ASSUME AtomicAssumption ==
  /\ IsFiniteSet(Crtcs) /\ Crtcs = 1 .. Cardinality(Crtcs)
  /\ IsFiniteSet(Planes) /\ Planes = 1 .. Cardinality(Planes)
  /\ \A m \in Machines : m \in MachineType /\ m.modes # << >>
  /\ \A m \in Machines, c \in Crtcs : Primaries(m, c) # << >>
  /\ Chosen \subseteq Range(Names) \cup {"all"} /\ Null \notin Crtcs \cup {0}
  /\ MayRefuse \in BOOLEAN /\ Formats \in Nat /\ Farthest \in Nat
  /\ \A m \in Machines : \A i \in DOMAIN m.modes :
       m.modes[i].width < Farthest /\ m.modes[i].height < Farthest

VARIABLES
  machine,      \* the machine: never changes
  todo,         \* the CRTCs and cases to come, the current one first
  script,       \* the steps of the case under way
  pc,           \* where the program stands
  step,         \* the step of the case under way
  ret,          \* the case's result: 0, 1 (TEST_COMMIT_FAIL) or -1
  moved,        \* whether any plane moved since the loop last began anew
  screen,       \* width and height of the CRTC, from the mode it was given
  planes,       \* struct atomictest_plane: fb_id, crtc_id, in_fence_fd, ctm, place
  crtcs,        \* struct atomictest_crtc: active, out_fence_ptr, ctm or gamma_lut
  connectors,   \* struct atomictest_connector: crtc_id
  base,         \* ctx->pset when run_testcase saved its cursor
  pset,         \* ctx->pset
  kms,          \* what the kernel shows and holds
  event,        \* a page flip: "none", "queued" or "sent"
  timeline,     \* the sw_sync timeline: "none", "open", "held" by a thread, "signalled"
  out_fence_fd  \* whether the kernel has stored a fence there

request == <<planes, crtcs, connectors, base, pset>>
outside == <<event, timeline, out_fence_fd>>
job == <<machine, todo, script, screen>>
vars == <<job, pc, step, ret, moved, request, kms, outside>>

crtc == todo[1][1]

----------------------------------------------------------------------------
\* The kernel.  It holds framebuffers, blobs and fences, shows a framebuffer
\* on each plane, and lights CRTCs through connectors.

Foreign == -1           \* a framebuffer of another program

Other(c) == {k \in Connectors : machine.lit[k] = c}
KmsInit ==
  [ fbs |-> {}, blobs |-> {}, fences |-> {},
    plane |-> [p \in Planes |->
                 LET lit == {c \in machine.crtcs[p] : Other(c) # {}}
                 IN IF machine.type[p] = "primary" /\ lit # {}
                    THEN [fb |-> Foreign, crtc |-> CHOOSE c \in lit : TRUE]
                    ELSE [fb |-> 0, crtc |-> 0]],
    active |-> [c \in Crtcs |-> Other(c) # {}],
    connector |-> machine.lit ]

\* The lowest id that is free.
NewId(ids) == CHOOSE i \in 1 .. Cardinality(ids) + 1 :
                i \notin ids /\ 1 .. i - 1 \subseteq ids

Override(old, new) == [x \in DOMAIN old |-> IF new[x] = Null THEN old[x] ELSE new[x]]

\* What the kernel shows once a request is committed.
After(req) ==
  [kms EXCEPT
     !.plane = [p \in Planes |-> IF req.plane[p] = Null THEN @[p]
                ELSE [fb |-> req.plane[p].fb, crtc |-> req.plane[p].crtc]],
     !.active = [c \in Crtcs |-> IF req.crtc[c] = Null THEN @[c]
                                 ELSE req.crtc[c].active],
     !.connector = Override(@, req.connector)]

\* Every object the request names exists.
RefersToLive(req) ==
  /\ \A p \in Planes : req.plane[p] # Null =>
       /\ req.plane[p].fb \in kms.fbs \cup {0}
       /\ req.plane[p].ctm \in kms.blobs \cup {0}
  /\ \A c \in Crtcs : req.crtc[c] # Null => req.crtc[c].color \in kms.blobs \cup {0}

\* A fence is one that is open, a plane has a framebuffer exactly if it has a
\* CRTC, and a CRTC is active exactly if a connector is on it.
Accepts(req) ==
  /\ RefersToLive(req)
  /\ \A p \in Planes : req.plane[p] # Null =>
       /\ req.plane[p].fence \in kms.fences \cup {0}
       /\ (req.plane[p].fb = 0) <=> (req.plane[p].crtc = 0)
  /\ \A c \in Crtcs :
       After(req).active[c] <=> \E k \in Connectors : After(req).connector[k] = c

\* drmModeRmFB, for each of fbs: the planes that show the framebuffer are turned
\* off, and with a primary plane its CRTC.
RmFB(k, fbs) ==
  LET off == {p \in Planes : k.plane[p].fb \in fbs}
      dark == {k.plane[p].crtc : p \in {q \in off : machine.type[q] = "primary"}}
  IN [k EXCEPT
        !.fbs = @ \ fbs,
        !.plane = [p \in Planes |-> IF p \in off THEN [fb |-> 0, crtc |-> 0] ELSE @[p]],
        !.active = [c \in Crtcs |-> @[c] /\ c \notin dark],
        !.connector = [c \in Connectors |-> IF @[c] \in dark THEN 0 ELSE @[c]]]

----------------------------------------------------------------------------
\* The request.

Empty == [ plane |-> [p \in Planes |-> Null], crtc |-> [c \in Crtcs |-> Null],
           connector |-> [k \in Connectors |-> Null] ]

\* What set_plane_props adds; in_fence_fd is 0 for -1.
set_plane_props(req, p, plane) == [req EXCEPT !.plane[p] = plane]

\* set_crtc_props: out_fence_ptr only when it is not NULL.
set_crtc_props(req, c, fields) ==
  [req EXCEPT !.crtc[c] =
     [ active |-> fields.active, color |-> fields.color,
       out_fence |-> fields.out_fence_ptr \/ (@ # Null /\ @.out_fence) ]]

PlaneFields == [ fb : Nat, crtc : Crtcs \cup {0}, fence : Nat, ctm : Nat,
                 place : [x : Nat, y : Nat, w : Nat, h : Nat] ]
Nowhere == Rect(0, 0, 0, 0)
NoPlane == [fb |-> 0, crtc |-> 0, fence |-> 0, ctm |-> 0, place |-> Nowhere]
PlaneInit == [c \in Crtcs |-> [p \in Planes |-> NoPlane]]

\* run_atomictest: all cases of the name, CRTC by CRTC.
Todo(name) ==
  LET chosen == Within(Names, IF name = "all" THEN Range(Names) ELSE {name})
  IN FlattenSeq([c \in Crtcs |-> [i \in DOMAIN chosen |-> <<c, chosen[i]>>]])

Init ==
  /\ machine \in Machines
  /\ \E name \in Chosen : todo = Todo(name)
  /\ script = << >>
  /\ pc = "enable"
  /\ step = 0 /\ ret = 0 /\ moved = FALSE
  /\ screen = Head(machine.modes)
  /\ planes = PlaneInit
  /\ crtcs = [c \in Crtcs |->
                [active |-> FALSE, out_fence_ptr |-> FALSE, color |-> 0]]
  /\ connectors = [k \in Connectors |-> 0]
  /\ base = Empty /\ pset = Empty
  /\ kms = KmsInit
  /\ event = "none" /\ timeline = "none" /\ out_fence_fd = FALSE

----------------------------------------------------------------------------
\* enable_crtc: the list of properties begins anew; the connector found by
\* get_connection may be one of another card, then none is set.  The mode is the
\* first that is not refused.
EnableCrtc ==
  /\ pc = "enable" /\ todo # << >>
  /\ \E conn \in Connectors \cup {Null} :
       connectors' = [k \in Connectors |-> IF k = conn THEN crtc ELSE 0]
  /\ \E i \in DOMAIN machine.modes :
       /\ i = 1 \/ MayRefuse
       /\ screen' = machine.modes[i]
  /\ script' = cases(machine, crtc, screen', todo[1][2])
  /\ crtcs' = [crtcs EXCEPT ![crtc].active = TRUE]
  /\ pset' = set_crtc_props([Empty EXCEPT !.connector = connectors'],
                            crtc, crtcs'[crtc])
  /\ base' = pset'
  /\ \/ Accepts(pset') /\ pc' = "case" /\ step' = 1
     \/ /\ ~Accepts(pset') \/ MayRefuse
        /\ pc' = "out" /\ UNCHANGED step
  /\ ret' = 0 /\ moved' = FALSE
  /\ UNCHANGED <<machine, todo, planes, kms, outside>>

\* get_connection finds nothing.
NoConnection ==
  /\ pc = "enable" /\ todo # << >>
  /\ connectors' = [k \in Connectors |-> 0]
  /\ pset' = [Empty EXCEPT !.connector = connectors']
  /\ pc' = "out"
  /\ UNCHANGED <<job, step, ret, moved, planes, crtcs, base,
                 kms, outside>>

AllDone ==
  /\ pc = "enable" /\ todo = << >>
  /\ pc' = "out"
  /\ UNCHANGED <<job, step, ret, moved, request, kms, outside>>

----------------------------------------------------------------------------
\* The steps of a case.

At(op) == pc = "case" /\ step <= Len(script) /\ script[step].op = op
plane_id == script[step].plane
skip == script[step].n
plane == planes[crtc][plane_id]
place == plane.place
argument == script[step].arg

Continue == pc' = "case" /\ step' = step + 1 /\ UNCHANGED ret
PassOver == pc' = "case" /\ step' = step + 1 + skip /\ UNCHANGED ret
Return(result) == pc' = "cleanup" /\ ret' = result /\ UNCHANGED step

\* remove_plane_fb
remove_plane_fb(k, fields) == RmFB(k, {fields.fb} \ {0})

Fail == IF skip = 0 THEN Return(-1) ELSE PassOver

\* init_plane: the old framebuffer is removed, a new one made and all
\* properties added; add_plane_fb may fail half way, and be called again by
\* CHECK_RESULT to no avail or (too late) with success; and a plane may have
\* no suitable format.
InitPlane ==
  /\ At("init")
  /\ LET free  == remove_plane_fb(kms, plane)
         fb    == NewId(free.fbs)
         put   == [plane EXCEPT !.crtc = crtc, !.place = argument]
     IN \/ /\ kms' = [free EXCEPT !.fbs = @ \cup {fb}]
           /\ planes' = [planes EXCEPT ![crtc][plane_id] = [put EXCEPT !.fb = fb]]
           /\ pset' = set_plane_props(pset, plane_id, planes'[crtc][plane_id])
           /\ Continue \/ Fail
        \/ /\ kms' = free
           /\ planes' = [planes EXCEPT ![crtc][plane_id] = [put EXCEPT !.fb = 0]]
           /\ Fail /\ UNCHANGED pset
        \/ Fail /\ UNCHANGED <<kms, planes, pset>>
  /\ UNCHANGED <<job, moved, crtcs, connectors, base, outside>>

\* draw_to_plane: what it maps is module Mapper's; a plane of a format it has
\* no patterns for is written to without asking whether it could be mapped.
DrawToPlane ==
  /\ At("draw")
  /\ \/ Continue
     \/ Fail
     \/ pc' = "killed" /\ UNCHANGED <<step, ret>>
  /\ UNCHANGED <<job, moved, request, kms, outside>>

\* Fields of a plane are changed and set_plane_props called.
SetPlane(changed) ==
  /\ planes' = [planes EXCEPT ![crtc][plane_id] = changed]
  /\ pset' = set_plane_props(pset, plane_id, changed)
  /\ UNCHANGED <<crtcs, connectors, base>>

SetProps ==
  /\ \/ At("set_props") /\ SetPlane(plane)
     \/ At("detach") /\ SetPlane([plane EXCEPT !.crtc = 0])
     \/ At("attach") /\ SetPlane([plane EXCEPT !.crtc = crtc])
  /\ Continue
  /\ UNCHANGED <<job, moved, kms, outside>>

Smaller(i, j) == IF i < j THEN i ELSE j

\* pos < size - extent, where the difference is unsigned: it wraps.
Before(pos, size, extent) == extent > size \/ pos < size - extent

\* move_plane.
CanMove(at) ==
  Before(at.x, screen.width, at.w) /\ Before(at.y, screen.height, at.h)
Moved(at, by) == [at EXCEPT !.x = Smaller(@ + by.dx, Farthest),
                            !.y = Smaller(@ + by.dy, Farthest)]

\* scale_plane, which adds the height to the height; the result is made even.
Scaled(size, tenths) == (tenths * size) \div 10
CanScale(at, tenths) ==
  LET w == Scaled(at.w, tenths) h == Scaled(at.h, tenths)
  IN w > 0 /\ h > 0 /\ at.x + w < screen.width /\ at.h + h < screen.height
Resized(at, tenths) == [at EXCEPT !.w = Even(Scaled(@, tenths)),
                                  !.h = Even(Scaled(@, tenths))]

MovePlane ==
  /\ \/ /\ At("move") /\ CanMove(place)
        /\ SetPlane([plane EXCEPT !.place = Moved(@, argument)])
        /\ moved' = TRUE
        /\ Continue
     \/ /\ At("move") /\ ~CanMove(place)
        /\ PassOver
        /\ UNCHANGED <<request, moved>>
  /\ UNCHANGED <<job, kms, outside>>

ScalePlane ==
  /\ \/ /\ At("scale") /\ CanScale(place, argument)
        /\ SetPlane([plane EXCEPT !.place = Resized(@, argument)])
        /\ moved' = TRUE
        /\ Continue
     \/ /\ At("scale") /\ ~CanScale(place, argument)
        /\ PassOver
        /\ UNCHANGED <<request, moved>>
  /\ UNCHANGED <<job, kms, outside>>

Again_NotReset ==
  /\ At("again")
  /\ IF moved THEN pc' = "case" /\ step' = step - skip /\ UNCHANGED ret ELSE Continue
  /\ UNCHANGED <<job, moved, request, kms, outside>>
Again ==
  /\ At("again")
  /\ IF moved THEN pc' = "case" /\ step' = step - skip /\ UNCHANGED ret ELSE Continue
  /\ moved' = FALSE
  /\ UNCHANGED <<job, request, kms, outside>>

\* disable_plane, as the kernel, the program and the request have it after.
Disabled_KeepsFb(fields) ==
  [fields EXCEPT !.crtc = 0, !.ctm = 0, !.place = Nowhere]
Disabled_KeepsCtm(fields) ==
  [fields EXCEPT !.fb = 0, !.crtc = 0, !.place = Nowhere]
Disabled(fields) ==
  [fields EXCEPT !.fb = 0, !.crtc = 0, !.ctm = 0, !.place = Nowhere]

DisablePlane ==
  /\ At("disable")
  /\ kms' = remove_plane_fb(kms, plane)
  /\ SetPlane(Disabled(plane))
  /\ Continue
  /\ UNCHANGED <<job, moved, outside>>

\* drmModeCreatePropertyBlob64 for a plane's CTM or a CRTC's CTM or GAMMA_LUT,
\* which CHECK_RESULT calls again when it fails.
CreateBlob ==
  /\ At("create_blob")
  /\ LET blob == NewId(kms.blobs) IN
     \/ /\ kms' = [kms EXCEPT !.blobs = @ \cup {blob}]
        /\ IF plane_id = 0
           THEN /\ crtcs' = [crtcs EXCEPT ![crtc].color = blob]
                /\ pset' = set_crtc_props(pset, crtc, crtcs'[crtc])
                /\ UNCHANGED <<planes, connectors, base>>
           ELSE SetPlane([plane EXCEPT !.ctm = blob])
        /\ Continue
     \/ /\ Return(-1)
        /\ \E blobs \in {kms.blobs, kms.blobs \cup {blob}} : kms' = [kms EXCEPT !.blobs = blobs]
        /\ UNCHANGED <<request>>
  /\ UNCHANGED <<job, moved, outside>>

DestroyBlob ==
  /\ At("destroy_blob")
  /\ kms' = [kms EXCEPT !.blobs =
               @ \ {IF plane_id = 0 THEN crtcs[crtc].color ELSE plane.ctm}]
  /\ Continue
  /\ UNCHANGED <<job, moved, request, outside>>

----------------------------------------------------------------------------
\* test_and_commit, and the commit of run_testcase.  The kernel stores an out
\* fence, and queues an event that comes with the next frame.

CommitPset ==
  /\ Accepts(pset)
  /\ kms' = After(pset)
  /\ event' = "queued"
  /\ out_fence_fd' = (out_fence_fd \/ pset.crtc[crtc].out_fence)
  /\ UNCHANGED timeline

Or_Sum(result) == ret + result
Or(result) == IF ret = -1 \/ result = -1 THEN -1 ELSE IF ret = 1 THEN 1 ELSE result

Refused == ~Accepts(pset) \/ MayRefuse

\* A commit that is refused is called again by CHECK_RESULT, which may succeed.
CalledAgain == MayRefuse /\ ret' = -1

TestAndCommit ==
  /\ At("test_and_commit")
  /\ \/ /\ CommitPset /\ pc' = "wait" /\ UNCHANGED step
        /\ UNCHANGED ret \/ CalledAgain
     \/ /\ Refused
        /\ \E result \in {1} \cup (IF MayRefuse THEN {-1} ELSE {}) : ret' = Or(result)
        /\ step' = step + 1
        /\ UNCHANGED <<pc, kms, outside>>
  /\ UNCHANGED <<job, moved, request>>

CommitIfPossible ==
  /\ At("commit_if_possible")
  /\ \/ CommitPset /\ pc' = "wait" /\ UNCHANGED <<step, ret>>
     \/ CommitPset /\ pc' = "wait" /\ step' = Len(script) /\ CalledAgain
     \/ Refused /\ PassOver /\ UNCHANGED <<kms, outside>>
     \/ MayRefuse /\ Return(-1) /\ UNCHANGED <<kms, outside>>
  /\ UNCHANGED <<job, moved, request>>

\* select and drmHandleEvent; after the last commit the case is over.
ReadEvent_Timeout == UNCHANGED event
ReadEvent == event = "sent" /\ event' = "none"

HandleEvent ==
  /\ pc \in {"wait", "last_wait"}
  /\ ReadEvent
  /\ IF pc = "wait" THEN Continue
     ELSE pc' = (IF ret = -1 THEN "out" ELSE "disable") /\ UNCHANGED <<step, ret>>
  /\ UNCHANGED <<job, moved, request, kms, timeline, out_fence_fd>>

\* The frame is shown once the fences of its planes have signalled.
PageFlip ==
  /\ event = "queued"
  /\ timeline # "held"
       \/ {q \in Planes : pset.plane[q] # Null /\ pset.plane[q].fence # 0} = {}
  /\ event' = "sent"
  /\ UNCHANGED <<job, pc, step, ret, moved, request, kms,
                 timeline, out_fence_fd>>

----------------------------------------------------------------------------
\* test_in_fence and test_out_fence.

\* A timeline and a fence on it; if there is no fence, the timeline stays open.
CreateTimeline ==
  /\ At("timeline")
  /\ \/ kms' = [kms EXCEPT !.fences = @ \cup {NewId(@)}] /\ timeline' = "open" /\ Continue
     \/ Return(-1) /\ timeline' \in {timeline, "open"} /\ UNCHANGED kms
  /\ UNCHANGED <<job, moved, request, event, out_fence_fd>>

\* The plane waits for the fence; the thread that signals it is started.
SetInFence ==
  /\ At("in_fence")
  /\ \E fence \in kms.fences :
       /\ planes' = [planes EXCEPT ![crtc][plane_id].fence = fence]
       /\ pset' = set_crtc_props(set_plane_props(pset, plane_id, planes'[crtc][plane_id]),
                                 crtc, crtcs[crtc])
  /\ \/ timeline' = "held" /\ Continue
     \/ Return(-1) /\ UNCHANGED timeline
  /\ UNCHANGED <<job, moved, crtcs, connectors, base, kms,
                 event, out_fence_fd>>

\* The thread inc_timeline, and pthread_join.
IncTimeline ==
  /\ timeline = "held"
  /\ timeline' = "signalled"
  /\ UNCHANGED <<job, pc, step, ret, moved, request, kms,
                 event, out_fence_fd>>

Join_Detached ==
  /\ At("join")
  /\ Continue
  /\ UNCHANGED <<job, moved, request, kms, outside>>
Join ==
  /\ At("join") /\ timeline = "signalled"
  /\ Continue
  /\ UNCHANGED <<job, moved, request, kms, outside>>

\* in_fence_fd.value keeps the number of the descriptor.
CloseFence ==
  /\ At("close")
  /\ kms' = [kms EXCEPT !.fences = @ \ {plane.fence}]
  /\ timeline' = "none"
  /\ Continue
  /\ UNCHANGED <<job, moved, request, event, out_fence_fd>>

\* out_fence_ptr.value keeps the address of the local out_fence_fd.
SetOutFence ==
  /\ At("out_fence")
  /\ crtcs' = [crtcs EXCEPT ![crtc].out_fence_ptr = TRUE]
  /\ pset' = set_crtc_props(pset, crtc, crtcs'[crtc])
  /\ out_fence_fd' = FALSE
  /\ Continue
  /\ UNCHANGED <<job, moved, planes, connectors, base, kms,
                 event, timeline>>

\* The check of the fence, and that of sync_wait, which may fail for any fence.
CheckOutFence ==
  /\ At("check_out_fence")
  /\ \/ out_fence_fd /\ Continue
     \/ Return(-1)
  /\ UNCHANGED <<job, moved, request, kms, outside>>

\* pageflip_formats: an unsupported format, and CHECK_RESULT of its result.
Unsupported ==
  /\ At("unsupported")
  /\ Continue \/ PassOver
  /\ UNCHANGED <<job, moved, request, kms, outside>>

DropResult ==
  /\ \/ /\ At("drop_result")
        /\ IF ret = -1 THEN Continue
           ELSE ret' = 0 /\ step' = step + 1 + skip /\ UNCHANGED pc
     \/ At("failed") /\ ret' = -1 /\ step' = step + 1 /\ UNCHANGED pc
     \/ At("return") /\ Return(ret)
  /\ UNCHANGED <<job, moved, request, kms, outside>>

EndOfCase ==
  /\ pc = "case" /\ step > Len(script)
  /\ Return(ret)
  /\ UNCHANGED <<job, moved, request, kms, outside>>

----------------------------------------------------------------------------
\* run_testcase after the case: all planes are disabled, but the cursor is set
\* back over the properties that says so.
Ours == {PlanesOf(machine, crtc)[i] : i \in DOMAIN PlanesOf(machine, crtc)}
Shown == {planes[crtc][q].fb : q \in Ours} \ {0}

DisablePlanes ==
  /\ pc = "cleanup"
  /\ kms' = RmFB(kms, Shown)
  /\ planes' = [planes EXCEPT ![crtc] =
                  [q \in Planes |-> IF q \in Ours THEN Disabled(@[q]) ELSE @[q]]]
  /\ pset' = base
  /\ pc' = "last_commit"
  /\ UNCHANGED <<job, step, ret, moved, crtcs, connectors, base,
                 outside>>

LastCommit ==
  /\ pc = "last_commit"
  /\ \/ /\ CommitPset /\ pc' = "last_wait"
        /\ UNCHANGED ret \/ CalledAgain
     \/ Refused /\ pc' = "out" /\ UNCHANGED <<ret, kms, outside>>
  /\ UNCHANGED <<job, step, moved, request>>

DisableCrtc ==
  /\ pc = "disable"
  /\ connectors' = [k \in Connectors |-> 0]
  /\ crtcs' = [crtcs EXCEPT ![crtc].active = FALSE, ![crtc].color = 0]
  /\ pset' = set_crtc_props([pset EXCEPT !.connector = connectors'],
                            crtc, crtcs'[crtc])
  /\ \/ /\ Accepts(pset')
        /\ kms' = After(pset')
        /\ pc' = "enable"
        /\ todo' = Tail(todo)
     \/ /\ ~Accepts(pset') \/ MayRefuse
        /\ pc' = "out"
        /\ UNCHANGED <<kms, todo>>
  /\ UNCHANGED <<machine, script, screen, step, ret, moved, planes, base, outside>>

\* free_context, and the end of the program.
FreeContext ==
  /\ pc = "out"
  /\ kms' = RmFB(kms, {planes[c][q].fb : c \in Crtcs, q \in Planes} \ {0})
  /\ planes' = PlaneInit
  /\ pc' = "done"
  /\ UNCHANGED <<job, step, ret, moved, crtcs, connectors, base,
                 pset, outside>>

Program ==
  \/ EnableCrtc \/ NoConnection \/ AllDone
  \/ InitPlane \/ DrawToPlane \/ SetProps \/ MovePlane \/ ScalePlane \/ Again \/ DisablePlane
  \/ CreateBlob \/ DestroyBlob \/ TestAndCommit \/ CommitIfPossible \/ HandleEvent
  \/ CreateTimeline \/ SetInFence \/ Join \/ CloseFence
  \/ SetOutFence \/ CheckOutFence \/ Unsupported \/ DropResult \/ EndOfCase
  \/ DisablePlanes \/ LastCommit \/ DisableCrtc \/ FreeContext

Next == Program \/ PageFlip \/ IncTimeline

\* The program and its thread run on, and frames are shown.
Spec == Init /\ [][Next]_vars
             /\ WF_vars(Program) /\ WF_vars(PageFlip) /\ WF_vars(IncTimeline)

----------------------------------------------------------------------------
Outputs == { kms.connector[k] : k \in Connectors }

TypeOK ==
  /\ machine \in Machines /\ screen \in Range(machine.modes)
  /\ todo \in Seq(Crtcs \X Range(Names))
  /\ pc \in {"enable", "case", "wait", "cleanup", "last_commit", "last_wait",
             "disable", "out", "done", "killed"}
  /\ step \in Nat /\ ret \in {-1, 0, 1} /\ moved \in BOOLEAN
  /\ planes \in [Crtcs -> [Planes -> PlaneFields]]
  /\ crtcs \in [Crtcs -> [active : BOOLEAN, out_fence_ptr : BOOLEAN, color : Nat]]
  /\ connectors \in [Connectors -> Crtcs \cup {0}]
  /\ {base, pset} \subseteq
       [ plane : [Planes -> PlaneFields \cup {Null}],
         crtc : [Crtcs -> [active : BOOLEAN, color : Nat, out_fence : BOOLEAN] \cup {Null}],
         connector : [Connectors -> Crtcs \cup {0, Null}] ]
  /\ kms \in [ fbs : SUBSET Nat, blobs : SUBSET Nat, fences : SUBSET Nat,
              plane : [Planes -> [fb : Nat \cup {Foreign}, crtc : Crtcs \cup {0}]],
              active : [Crtcs -> BOOLEAN], connector : [Connectors -> Crtcs \cup {0}] ]
  /\ event \in {"none", "queued", "sent"}
  /\ timeline \in {"none", "open", "held", "signalled"}
  /\ out_fence_fd \in BOOLEAN

\* The properties given to the kernel name only framebuffers and blobs that
\* exist, although each is destroyed while the request still holds its id
\* (remove_plane_fb, drmModeDestroyPropertyBlob64, run_testcase).
CommitsAreLive ==
  At("test_and_commit") \/ At("commit_if_possible") \/ pc = "last_commit"
    => RefersToLive(pset)

\* When a case is begun, whatever the cases before it did, nothing of theirs is
\* left: not in the kernel, which has what it was found with or nothing lit,
\* and not in the program's own copies (run_testcase, disable_plane,
\* disable_crtc).  Left out: in_fence_fd and out_fence_ptr, which do stay.
CleanSlate ==
  pc = "enable" =>
    /\ kms.fbs = {} /\ kms.blobs = {} /\ kms.fences = {}
    /\ kms = KmsInit \/ \A c \in Crtcs : ~kms.active[c] /\ c \notin Outputs
    /\ \A c \in Crtcs : ~crtcs[c].active /\ crtcs[c].color = 0
    /\ \A c \in Crtcs, p \in Planes :
         planes[c][p] = [NoPlane EXCEPT !.fence = planes[c][p].fence]

\* Every page flip asked for is waited for before the next request is made
\* (commit): the kernel never has two under way.
OneFlipAtATime == event # "none" => pc \in {"wait", "last_wait"}

\* The timeline is not closed before the thread has incremented it, whether
\* the commits that would wait for that are refused or not (test_in_fence).
TimelineOutlivesThread == [][timeline = "held" => timeline' # "none"]_vars

\* What the loops that move and scale planes do not get out of: a plane larger
\* than the screen in both directions, and one that keeps its size.
Endless ==
  /\ pc \in {"case", "wait"}
  /\ \E i \in {j \in DOMAIN script : script[j].op \in {"move", "scale"}} :
       LET at == planes[crtc][script[i].plane].place
       IN IF script[i].op = "move"
          THEN at.w > screen.width /\ at.h > screen.height
          ELSE at.w > 0 /\ Resized(at, script[i].arg) = at

\* The program ends, although a commit may wait for a fence that only the
\* thread signals, or else it moves or scales for ever one of those planes: all
\* other loops of move_plane and scale_plane come to an end on every screen.
Ends == <>(pc \in {"done", "killed"}) \/ <>[]Endless

----------------------------------------------------------------------------
\* What the code says of itself, and does not keep.

\* atomictest.c:635: "we can't have an active CRTC without any planes".
NoActiveCrtcWithoutPlanes ==
  \A c \in Crtcs : kms.active[c] => \E p \in Planes : kms.plane[p].crtc = c

\* atomictest.c:1095: CHECK(out_fence_fd), after a commit that asks for it.
OutFenceMade == At("check_out_fence") => out_fence_fd
=============================================================================
