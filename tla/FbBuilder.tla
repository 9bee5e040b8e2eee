----------------------------- MODULE FbBuilder -----------------------------
(***************************************************************************)
(* The framebuffer builder of bsdrm/src/drm_fb.c: setters collect what     *)
(* drmModeAddFB2 is to be called with, bs_drm_fb_builder_create_fb checks  *)
(* it and calls.  A builder may be used for one buffer object after        *)
(* another, and the builder of bs_drm_fb_create_gbm lies on the stack,     *)
(* where all its fields but fd begin as junk.  A plane's handle, stride    *)
(* and offset are always set together: one entry stands for the three.     *)
(***************************************************************************)
EXTENDS Integers

CONSTANTS
  Null,             \* 0 in a field, no builder, nothing asked for yet
  Junk,             \* what memory that was never written holds
  Bos,              \* buffer objects a client has
  FbFormats,        \* formats a client sets, 0 among them
  MAX_PLANE_COUNT   \* 4 in the code

Slots == 0 .. MAX_PLANE_COUNT - 1

ASSUME FbBuilderAssumption ==
  /\ MAX_PLANE_COUNT \in Nat
  /\ \A bo \in Bos : bo.planes \in Nat \ {0}
  /\ Null \notin Nat /\ Junk \notin Nat

VARIABLES
  builder,      \* struct bs_drm_fb_builder, or Null
  asked,        \* history: what the client's calls so far ask for
  request       \* history: the last call of drmModeAddFB2, or Null

builderVars == <<builder, asked, request>>

NothingAsked == [bo |-> Null, format |-> Null]

BuilderInit ==
  /\ builder = Null
  /\ asked = NothingAsked
  /\ request = Null

----------------------------------------------------------------------------
\* A struct bs_drm_fb_builder in memory of the given content, after
\* bs_drm_fb_builder_init: only fd is set, to -1.
Initialized(content) ==
  [ fd |-> FALSE, size |-> content, format |-> content,
    plane_count |-> content, planes |-> [p \in Slots |-> content] ]

\* plane_count for a buffer object: planes past MAX_PLANE_COUNT are left out.
PlaneCount(bo) ==
  IF bo.planes > MAX_PLANE_COUNT THEN MAX_PLANE_COUNT ELSE bo.planes

Entry(bo, p) == <<bo.name, p>>

\* bs_drm_fb_builder_gbm_bo: every field is set, but of the planes only those
\* the buffer object has.
Filled(b, bo) ==
  [ fd |-> TRUE, size |-> bo.name, format |-> bo.format,
    plane_count |-> PlaneCount(bo),
    planes |-> [p \in Slots |-> IF p < PlaneCount(bo) THEN Entry(bo, p)
                                ELSE b.planes[p]] ]

\* The checks of bs_drm_fb_builder_create_fb.
Valid(b) ==
  /\ b.fd
  /\ b.size # Null
  /\ b.format # Null
  /\ b.plane_count \in 1 .. MAX_PLANE_COUNT

\* Mutant: the other entries are left as they are.
Trimmed_Not(b) == b

\* The entries past plane_count are set to 0.
Trimmed(b) ==
  [b EXCEPT !.planes = [p \in Slots |-> IF p < b.plane_count
                                        THEN b.planes[p] ELSE Null]]

\* drmModeAddFB2 is called with the fields of b, for a client that asked so.
drmModeAddFB2(b, ask) ==
  request' = [size |-> b.size, format |-> b.format, planes |-> b.planes,
              asked |-> ask]

----------------------------------------------------------------------------
bs_drm_fb_builder_new ==
  /\ builder = Null
  /\ builder' = Initialized(Null)
  /\ asked' = NothingAsked
  /\ UNCHANGED request

bs_drm_fb_builder_destroy ==
  /\ builder # Null
  /\ builder' = Null
  /\ UNCHANGED <<asked, request>>

bs_drm_fb_builder_gbm_bo(bo) ==
  /\ builder # Null
  /\ builder' = Filled(builder, bo)
  /\ asked' = [bo |-> bo, format |-> bo.format]
  /\ UNCHANGED request

bs_drm_fb_builder_format(format) ==
  /\ builder # Null
  /\ builder' = [builder EXCEPT !.format = format]
  /\ asked' = [asked EXCEPT !.format = format]
  /\ UNCHANGED request

\* The caller learns the framebuffer's id or 0, for an invalid builder or when
\* the kernel refuses the request.
bs_drm_fb_builder_create_fb ==
  /\ builder # Null
  /\ IF Valid(builder)
     THEN builder' = Trimmed(builder) /\ drmModeAddFB2(builder', asked)
     ELSE UNCHANGED <<builder, request>>
  /\ UNCHANGED asked

\* All of it with a builder on the stack.
bs_drm_fb_create_gbm(bo) ==
  /\ LET b == Filled(Initialized(Junk), bo) IN
     IF Valid(b) THEN drmModeAddFB2(Trimmed(b), [bo |-> bo, format |-> bo.format])
     ELSE UNCHANGED request
  /\ UNCHANGED <<builder, asked>>

\* A client in any order.
BuilderNext ==
  \/ bs_drm_fb_builder_new
  \/ bs_drm_fb_builder_destroy
  \/ \E bo \in Bos : bs_drm_fb_builder_gbm_bo(bo)
  \/ \E format \in FbFormats : bs_drm_fb_builder_format(format)
  \/ bs_drm_fb_builder_create_fb
  \/ \E bo \in Bos : bs_drm_fb_create_gbm(bo)

BuilderSpec == BuilderInit /\ [][BuilderNext]_builderVars

----------------------------------------------------------------------------
\* What the kernel is asked for is the buffer object given last, in the format
\* set last, with an entry for each of its planes and 0 in all others: no
\* entry of an earlier buffer with more planes, and nothing of the stack.
RequestIsOwn ==
  request # Null =>
    LET bo == request.asked.bo IN
    /\ request.size = bo.name
    /\ request.format = request.asked.format
    /\ request.planes = [p \in Slots |-> IF p < PlaneCount(bo)
                                         THEN Entry(bo, p) ELSE Null]
=============================================================================
