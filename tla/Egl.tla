-------------------------------- MODULE Egl --------------------------------
(***************************************************************************)
(* The EGL helper of bsdrm/src/egl.c: one display and context, and the     *)
(* images and framebuffers made with them.  What EGL and GL have made and  *)
(* not deleted yet is in "live", whose members are named by kind and       *)
(* index; eglTerminate deletes all of it.                                  *)
(***************************************************************************)
EXTENDS Integers, FiniteSets

CONSTANTS
  NoEgl,        \* no struct bs_egl
  MaxPlanes,    \* planes of a buffer object, 3 for the formats in use
  MaxSpilled    \* bound on the descriptors counted in "spilled"

ASSUME EglAssumption ==
  /\ MaxPlanes \in 1 .. 4 /\ MaxSpilled \in Nat
  /\ NoEgl \notin [ setup : BOOLEAN, display : BOOLEAN, ctx : BOOLEAN,
                    flush : BOOLEAN, mods : BOOLEAN ]

VARIABLES
  egl,          \* struct bs_egl of the program, or NoEgl
  live,         \* objects made and not given back
  spilled,      \* descriptors of planes that nobody will close
  faults,       \* what the program has done that it must not do
  aborted       \* a failed assertion or an access to nowhere ended it

eglVars == <<egl, live, spilled, faults, aborted>>

Display == <<"display", 0>>
Context == <<"context", 0>>
Image(k) == <<"image", k>>
Fb(k) == <<"egl_fb", k>>

\* What lives in the display or in its context.
GlKinds == {"context", "image", "egl_fb", "tex", "program", "vbo", "shader",
            "gl_fb", "gl_rb"}
Terminated(objects) ==
  {o \in objects : o[1] # "display" /\ o[1] \notin GlKinds}

EglInit ==
  /\ egl = NoEgl
  /\ live = {}
  /\ spilled = 0
  /\ faults = {}
  /\ aborted = FALSE

\* An assertion that fails, and a misuse the program goes on after.
Abort == aborted' = TRUE /\ UNCHANGED <<egl, live, spilled, faults>>
Faulty(fault) == faults' = faults \cup {fault}

----------------------------------------------------------------------------
\* bs_egl_new: neither display nor context.
bs_egl_new ==
  /\ egl' = [ setup |-> FALSE, display |-> FALSE, ctx |-> FALSE,
              flush |-> FALSE, mods |-> FALSE ]
  /\ UNCHANGED <<live, spilled, faults, aborted>>

\* Where bs_egl_setup can fail, in the order of the code.
EarlyPoints == {"procs", "get_display", "initialize"}
TerminatingPoints == {"choose_config", "bind_api", "create_context"}
LatePoints == {"make_current", "egl_extensions", "gl_extensions"}
SetupPoints == EarlyPoints \cup TerminatingPoints \cup LatePoints

\* The struct after a failure: a display that could not be initialized stays,
\* all later failures take it away, and a context that was destroyed stays.
FailedSetup(self, point) ==
  [self EXCEPT
     !.display = CASE point = "procs" -> self.display
                   [] point = "initialize" -> TRUE
                   [] OTHER -> FALSE,
     !.ctx = CASE point \in LatePoints -> TRUE
               [] point = "create_context" -> FALSE
               [] OTHER -> self.ctx]

\* The two extensions that are used if they are there.
Noted(self, flush, mods) ==
  [self EXCEPT !.flush = self.flush \/ flush, !.mods = self.mods \/ mods]

bs_egl_setup_fails(point) ==
  /\ ~egl.setup
  /\ IF point = "gl_extensions"
     THEN \E flush, mods \in BOOLEAN :
            egl' = Noted(FailedSetup(egl, point), flush, mods)
     ELSE egl' = FailedSetup(egl, point)
  /\ UNCHANGED <<live, spilled, faults, aborted>>

bs_egl_setup ==
  /\ ~egl.setup
  /\ \E flush, mods \in BOOLEAN :
       egl' = Noted([egl EXCEPT !.setup = TRUE, !.display = TRUE, !.ctx = TRUE],
                    flush, mods)
  /\ live' = live \cup {Display, Context}
  /\ UNCHANGED <<spilled, faults, aborted>>

\* bs_egl_destroy asserts that a context has its display.
bs_egl_destroy ==
  IF egl = NoEgl \/ (egl.ctx /\ ~egl.display) THEN Abort
  ELSE /\ IF egl.ctx /\ Context \notin live THEN Faulty("dead")
          ELSE UNCHANGED faults
       /\ live' = IF egl.display THEN Terminated(live) ELSE live
       /\ egl' = NoEgl
       /\ UNCHANGED <<spilled, aborted>>

----------------------------------------------------------------------------
\* bs_egl_image_create_gbm, for a buffer object of the given planes.

AttributeRoom == 39

\* Entries: size and format, each plane, the flush, the end.
AttributeCount(planes, external) ==
  6 + planes * (IF egl.mods THEN 10 ELSE 6) + (IF external THEN 2 ELSE 0) + 1

\* A driver of NVIDIA is not asked for external flushes.
ExternalFlush(nvidia) == egl.flush /\ ~nvidia

Overflows(planes) ==
  \E nvidia \in BOOLEAN :
    AttributeCount(planes, ExternalFlush(nvidia)) > AttributeRoom

Spilled(n) ==
  spilled' = IF spilled + n > MaxSpilled THEN MaxSpilled ELSE spilled + n

\* Without a display the assertion fails; the caller gets an image, or none
\* after a plane whose descriptor could not be had or a refusal of EGL: those
\* of the planes before it, or of all planes, are not closed.
bs_egl_image_create_gbm(k, planes) ==
  IF ~egl.display THEN Abort
  ELSE /\ IF Overflows(planes) THEN Faulty("overflow") ELSE UNCHANGED faults
       /\ live' = live \cup {Image(k)}
       /\ UNCHANGED <<egl, spilled, aborted>>

bs_egl_image_create_gbm_fails(planes) ==
  IF ~egl.display THEN Abort
  ELSE /\ \E had \in 0 .. planes :
            /\ Spilled(had)
            /\ IF had = planes /\ Overflows(planes) THEN Faulty("overflow")
               ELSE UNCHANGED faults
       /\ UNCHANGED <<egl, live, aborted>>

\* bs_egl_fb_new makes a texture and a framebuffer, or neither.
bs_egl_fb_new(k) ==
  /\ live' = live \cup {Fb(k)}
  /\ UNCHANGED <<egl, spilled, faults, aborted>>

\* bs_egl_image_flush_external, of which only an extension can fail.
FlushMayFail == egl # NoEgl /\ egl.flush

----------------------------------------------------------------------------
\* A client of its own: any order of the calls that the assertions allow, for
\* images named k, of which it destroys what it has made.

ClientImages == 0 .. 1
HasContext == egl # NoEgl /\ egl.setup /\ ~aborted

ClientNew == egl = NoEgl /\ ~aborted /\ bs_egl_new
ClientDestroy == egl # NoEgl /\ ~aborted /\ bs_egl_destroy

ClientSetup == egl # NoEgl /\ ~aborted /\ bs_egl_setup
ClientSetupFails(point) == egl # NoEgl /\ ~aborted /\ bs_egl_setup_fails(point)

ClientImage(k) ==
  /\ HasContext /\ Image(k) \notin live
  /\ \E planes \in 1 .. MaxPlanes : bs_egl_image_create_gbm(k, planes)

ClientImageFails ==
  /\ HasContext
  /\ \E planes \in 1 .. MaxPlanes : bs_egl_image_create_gbm_fails(planes)

ClientFb(k) ==
  /\ HasContext /\ Image(k) \in live /\ Fb(k) \notin live
  /\ bs_egl_fb_new(k)

\* bs_egl_image_destroy or bs_egl_fb_destroy.
ClientGives(object) ==
  /\ HasContext /\ object \in live
  /\ live' = live \ {object}
  /\ UNCHANGED <<egl, spilled, faults, aborted>>
=============================================================================
