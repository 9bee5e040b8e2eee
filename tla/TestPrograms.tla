---------------------------- MODULE TestPrograms ----------------------------
(***************************************************************************)
(* The programs of module TestScripts carried out against the EGL helper   *)
(* and the framebuffer builder, with every call that may fail failing or   *)
(* not: what is given back on each way out, whether an object is used that *)
(* is not there, and what status the program ends with.  Two more clients  *)
(* use the EGL helper and the builder in any order they allow.             *)
(*                                                                         *)
(* A variable that keeps an object is named like the object, by kind and   *)
(* index: it is in "names" when it is not NULL, 0 or MAP_FAILED, and in    *)
(* "junk" as long as nothing was written to it.                            *)
(***************************************************************************)
EXTENDS TestScripts, Egl, FbBuilder

CONSTANT Programs     \* the programs of a run

VARIABLES
  program,      \* the program that runs
  todo,         \* the steps that are left
  names,        \* variables that name an object, live or given back
  junk,         \* variables without a value
  failed,       \* history: the calls that failed
  ret,          \* the status to exit with
  passed        \* cases that passed, or that did not fail

scriptVars == <<program, todo, names, junk, failed, ret, passed>>
vars == <<scriptVars, eglVars, builderVars>>

Scripted == {"null_platform_test", "mapped_texture_test", "linear_bo_test",
             "gamma_test", "mmap_test", "drm_cursor_test", "swrast_test",
             "vgem_test", "stripe", "vk_glow"}
Clients == {"egl_client", "fb_client"}

ASSUME ProgramsAssumption == Programs \subseteq Scripted \cup Clients

Script(p) ==
  CASE p = "null_platform_test" -> null_platform_test
    [] p = "mapped_texture_test" -> mapped_texture_test
    [] p = "linear_bo_test" -> linear_bo_test
    [] p = "gamma_test" -> gamma_test
    [] p = "mmap_test" -> mmap_test
    [] p = "drm_cursor_test" -> drm_cursor_test
    [] p = "swrast_test" -> swrast_test
    [] p = "vgem_test" -> vgem_test
    [] p = "stripe" -> stripe
    [] p = "vk_glow" -> vk_glow
    [] p \in Clients -> << >>

\* The fields of the offscreen buffer and of gl_resources in mapped_texture's
\* main are not initialized.
Uninitialized(p) ==
  IF p = "mapped_texture_test"
  THEN {<<"image", 2>>, <<"tex", 2>>, <<"vbo", 0>>} ELSE {}

Init ==
  /\ program \in Programs
  /\ todo = Script(program)
  /\ names = {}
  /\ junk = Uninitialized(program)
  /\ failed = {}
  /\ ret = 1
  /\ passed = 0
  /\ EglInit
  /\ BuilderInit

Running == todo # << >> /\ ~aborted
Step1 == Head(todo)
Object == Step1.of
Kind == Object[1]
Index == Object[2]
Doing(do) == Running /\ Step1.do = do

NoCase == UNCHANGED <<ret, passed>>
GoOn == todo' = Tail(todo) /\ UNCHANGED <<program, failed>> /\ NoCase
Fails(call, steps) ==
  todo' = steps /\ failed' = failed \cup {call} /\ UNCHANGED program /\ NoCase
Undisturbed == UNCHANGED <<eglVars, builderVars>>

----------------------------------------------------------------------------
\* Calls that make objects.

\* Mutant: the new object is not kept.
Named_Lost == names' = names /\ junk' = junk \ {Object}

Named == names' = names \cup {Object} /\ junk' = junk \ {Object}
NotNamed == names' = names \ {Object} /\ junk' = junk \ {Object}
NotWritten == names' = names \ {Object} /\ junk' = junk \cup {Object}

\* The buffer objects of the programs have one plane, or two with a modifier
\* for compression.
BoPlanes == 1 .. 2

TakeObject ==
  /\ Running /\ Step1.do \in {"take", "make", "seek"}
  /\ GoOn /\ Named
  /\ UNCHANGED builderVars
  /\ IF Kind = "image" THEN \E n \in BoPlanes : bs_egl_image_create_gbm(Index, n)
     ELSE /\ live' = live \cup {Object}
          /\ UNCHANGED <<egl, spilled, faults, aborted>>

TakeFails ==
  /\ Doing("take") /\ Kind # "image"
  /\ Fails(Object, Step1.else) /\ NotNamed
  /\ Undisturbed

ImageFails ==
  /\ Doing("take") /\ Kind = "image"
  /\ Fails(Object, Step1.else) /\ NotNamed
  /\ \E n \in BoPlanes : bs_egl_image_create_gbm_fails(n)
  /\ UNCHANGED builderVars

SeekFails ==
  /\ Doing("seek")
  /\ Fails(Object, Tail(todo)) /\ NotWritten
  /\ Undisturbed

----------------------------------------------------------------------------
\* Calls that give objects back.

\* EGL and GL kinds other than the two of the helper, and framebuffers of the
\* kernel: 0 and names that are not there are ignored.
IgnoredKinds == {"id", "created_fb", "tex", "program", "vbo", "shader",
                 "gl_fb", "gl_rb"}
AssertedKinds == {"image", "egl_fb"}
ClearedKinds == AssertedKinds \cup {"connector"}

\* What a device's buffer objects are to it.
InUse == Kind = "gbm" /\ \E o \in live : o[1] = "bo"

GiveLive ==
  /\ Doing("give") /\ Object \notin junk /\ Object \in live
  /\ GoOn
  /\ names' = IF Kind \in ClearedKinds THEN names \ {Object} ELSE names
  /\ live' = IF Kind = "display" THEN Terminated(live) \ {Object}
             ELSE live \ {Object}
  /\ IF InUse THEN Faulty("in use") ELSE UNCHANGED faults
  /\ UNCHANGED <<junk, egl, spilled, aborted, builderVars>>

\* The variable is NULL or 0.
GiveNothing ==
  /\ Doing("give") /\ Object \notin junk \cup names
  /\ GoOn
  /\ IF Kind \in AssertedKinds \cup {"bo"} THEN Abort ELSE UNCHANGED eglVars
  /\ UNCHANGED <<names, junk, builderVars>>

\* The object was given back before, or went with its display.
GiveDead ==
  /\ Doing("give") /\ Object \in names \ live /\ Object \notin junk
  /\ GoOn
  /\ names' = IF Kind \in ClearedKinds THEN names \ {Object} ELSE names
  /\ IF Kind \in IgnoredKinds THEN UNCHANGED faults ELSE Faulty("dead")
  /\ UNCHANGED <<junk, egl, live, spilled, aborted, builderVars>>

\* Any value: GL ignores it or deletes another object of the kind; for an image
\* it may be EGL_NO_IMAGE_KHR, or nothing EGL knows, for a mapping NULL.
GiveJunk ==
  /\ Doing("give") /\ Object \in junk
  /\ GoOn
  /\ junk' = junk \ {Object}
  /\ Faulty("uninitialized")
  /\ \/ live' \in {live \ {o} : o \in {x \in live : x[1] = Kind}} \cup {live}
        /\ UNCHANGED aborted
     \/ Kind \in {"image", "map"} /\ aborted' = TRUE /\ UNCHANGED live
  /\ UNCHANGED <<names, egl, spilled, builderVars>>

----------------------------------------------------------------------------
\* Calls that leave no object.

\* A case of the linear test without a framebuffer is not shown.
PassedOver ==
  Kind = "set_crtc_if_made" /\ <<"created_fb", Index>> \notin names

CallSucceeds ==
  /\ Running /\ Step1.do \in {"call", "try"} /\ Kind # "egl_setup"
  /\ GoOn
  /\ UNCHANGED <<names, junk>> /\ Undisturbed

CallFails ==
  /\ Running /\ Step1.do \in {"call", "try"}
  /\ Kind # "egl_setup" /\ ~PassedOver
  /\ Kind = "flush" => FlushMayFail
  /\ Fails(Object, IF Step1.do = "try" THEN Tail(todo) ELSE Step1.else)
  /\ UNCHANGED <<names, junk>> /\ Undisturbed

Setup ==
  /\ Doing("call") /\ Kind = "egl_setup"
  /\ GoOn /\ bs_egl_setup
  /\ UNCHANGED <<names, junk, builderVars>>

SetupFails ==
  /\ Doing("call") /\ Kind = "egl_setup"
  /\ \E point \in SetupPoints :
       Fails(<<point, 0>>, Step1.else) /\ bs_egl_setup_fails(point)
  /\ UNCHANGED <<names, junk, builderVars>>

----------------------------------------------------------------------------
\* Steps of their own.

RunEgl ==
  /\ Doing("run") /\ GoOn
  /\ \/ Kind = "egl_new" /\ bs_egl_new
     \/ Kind = "egl_destroy" /\ bs_egl_destroy
  /\ UNCHANGED <<names, junk, builderVars>>

\* The buffer objects of the linear test, as the builder sees them.
LinearBo(k) ==
  [ name |-> k, planes |-> 1,
    format |-> IF FbFormatGiven(k) THEN "ARGB8888" ELSE "XRGB8888" ]

RunBuilder ==
  /\ Doing("run") /\ GoOn
  /\ \/ Kind = "builder_new" /\ bs_drm_fb_builder_new
     \/ Kind = "gbm_bo" /\ bs_drm_fb_builder_gbm_bo(LinearBo(Index))
     \/ Kind = "fb_format" /\ bs_drm_fb_builder_format("XRGB8888")
     \/ Kind = "create_fb" /\ bs_drm_fb_builder_create_fb
     \/ Kind = "builder_destroy" /\ bs_drm_fb_builder_destroy
  /\ UNCHANGED <<names, junk, eglVars>>

\* Through a pointer that may be MAP_FAILED, or that was freed.  A loop from
\* MAP_FAILED faults, or makes no turn: the address after its last one is past
\* the end of all addresses, and what it compares as is undefined.
IsMapped == <<"map", Index>> \in names

RunAccess ==
  /\ Doing("run") /\ GoOn
  /\ \/ Kind = "crash" /\ Abort
     \/ Kind \in {"access", "access_range"} /\ ~IsMapped /\ Abort
     \/ Kind = "access" /\ IsMapped /\ UNCHANGED eglVars
     \/ Kind = "access_range" /\ UNCHANGED eglVars
     \/ Kind = "read_freed" /\ Faulty("freed")
        /\ UNCHANGED <<egl, live, spilled, aborted>>
  /\ UNCHANGED <<names, junk, builderVars>>

\* "passed" counts for gamma_test the CRTCs that passed, for linear_bo_test the
\* cases that failed.
RunCase ==
  /\ Doing("run")
  /\ todo' = Tail(todo) /\ UNCHANGED <<program, failed>>
  /\ \/ Kind = "return" /\ ret' = Index /\ UNCHANGED passed
     \/ Kind \in {"case_passed", "case_failed"}
        /\ passed' = passed + 1 /\ UNCHANGED ret
     \/ Kind = "return_any_pass"
        /\ ret' = (IF passed = 0 THEN 1 ELSE 0) /\ UNCHANGED passed
     \/ Kind = "return_all_pass"
        /\ ret' = (IF passed = 0 THEN 0 ELSE 2) /\ UNCHANGED passed
  /\ UNCHANGED <<names, junk>> /\ Undisturbed

----------------------------------------------------------------------------
EglClientMakes ==
  \/ ClientNew \/ ClientDestroy \/ ClientSetup
  \/ \E k \in ClientImages : ClientImage(k) \/ ClientFb(k)
                             \/ ClientGives(Image(k)) \/ ClientGives(Fb(k))

EglClient ==
  /\ program = "egl_client"
  /\ \/ EglClientMakes /\ UNCHANGED failed
     \/ \E point \in SetupPoints :
          ClientSetupFails(point) /\ failed' = failed \cup {<<point, 0>>}
     \/ ClientImageFails /\ failed' = failed \cup {Image(0)}
  /\ UNCHANGED <<program, todo, names, junk, ret, passed, builderVars>>

FbClient ==
  /\ program = "fb_client"
  /\ BuilderNext
  /\ UNCHANGED <<scriptVars, eglVars>>

Next ==
  \/ TakeObject \/ TakeFails \/ ImageFails \/ SeekFails
  \/ GiveLive \/ GiveNothing \/ GiveDead \/ GiveJunk
  \/ CallSucceeds \/ CallFails \/ Setup \/ SetupFails
  \/ RunEgl \/ RunBuilder \/ RunAccess \/ RunCase
  \/ EglClient \/ FbClient

Spec == Init /\ [][Next]_vars

----------------------------------------------------------------------------
Ended == program \notin Clients /\ (todo = << >> \/ aborted)

Faults == {"dead", "in use", "uninitialized", "freed", "overflow"}

\* Types.  An object that is live is one that a variable has named.
TypeOK ==
  /\ program \in Programs
  /\ \A j \in DOMAIN todo : todo[j].do \in
       {"take", "make", "seek", "give", "call", "try", "run"}
  /\ names \cap junk = {}
  /\ egl = NoEgl \/ DOMAIN egl = {"setup", "display", "ctx", "flush", "mods"}
  /\ program # "egl_client" => live \subseteq names \cup {Display, Context}
  /\ spilled \in 0 .. MaxSpilled
  /\ faults \subseteq Faults /\ aborted \in BOOLEAN
  /\ ret \in 0 .. 2 /\ passed \in 0 .. 4

Each(kinds, indices) == kinds \X indices
Connector == <<"connector", 0>>

\* The failures after which a program misuses an object, by the code: for the
\* EGL client those of a setup that leave a destroyed context in the struct.
Fatal(p) ==
  CASE p = "null_platform_test" -> {Connector}
    [] p = "mapped_texture_test" ->
         {Connector, <<"mapper", 0>>}
         \cup Each({"bo", "id", "image", "egl_fb"}, Buffers)
         \cup Each({"bo", "image", "target_texture"}, {2})
         \cup Each({"program", "shader", "compile", "link"}, {0, 1})
    [] p = "linear_bo_test" -> {Connector, Fb(0), Fb(2)}
    [] p = "gamma_test" -> Each({"gamma_size"}, {0, 1})
    [] p = "mmap_test" -> {Connector, <<"mapper", 0>>} \cup Each({"map"}, {0, 1})
    [] p = "drm_cursor_test" -> {Connector}
    [] p = "vgem_test" -> Each({"map_dumb"}, 0 .. 5) \cup {<<"map", 1>>}
                          \cup Each({"dumb_size"}, {0, 1})
    [] p = "egl_client" -> Each(LatePoints, {0})
    [] OTHER -> {}

\* A program uses no object that is not there, gives none back that is in use
\* or that it does not have, and does not end in an assertion, unless one of
\* the failures just listed came first; and after each of those a program that
\* has ended did.  Which of the labels are wrong is thereby said exactly.
FaultsAreKnown ==
  /\ aborted \/ faults # {} => failed \cap Fatal(program) # {}
  /\ Ended /\ failed \cap Fatal(program) # {} => aborted \/ faults # {}

\* What a program that succeeds leaves to the end of its process, of what it has
\* kept: what it has no call for, and what it forgets.  null_platform_test
\* forgets a framebuffer, linear_bo_test two descriptors.
LeftBehind(p, kept) ==
  CASE p = "null_platform_test" -> {Connector, <<"id", 1>>}
    [] p \in {"mapped_texture_test", "drm_cursor_test"} -> {Connector}
    [] p = "linear_bo_test" -> {Connector, <<"card", 0>>, <<"gbm", 0>>}
                               \cup Each({"bo_fd"}, {1, 3})
    [] p = "gamma_test" -> Each({"card", "gbm"}, {0})
    [] p = "vgem_test" -> Each({"dumb", "prime_fd"}, {0, 1})
    [] p = "mmap_test" -> {o \in kept : o[1] # "map"}
    [] p = "vk_glow" -> kept
    [] p \in {"stripe", "swrast_test"} -> {}

\* Without a failure exactly that is left; the two programs with labels leave no
\* more after a failure they handle; and a plane's descriptor is left open only
\* by an image that could not be made.
LeavesOnly ==
  /\ Ended /\ failed = {} => live = LeftBehind(program, names)
  /\ spilled > 0 => \E call \in failed : call[1] = "image"
  /\ Ended /\ faults = {} /\ ~aborted
     /\ program \in {"mapped_texture_test", "swrast_test"}
     => live \subseteq LeftBehind(program, names)

\* The failures a program with status 0 may have had: those of mapped_texture's
\* frames after drmModeSetCrtc has set ret to 0; those of swrast's draw, and of
\* eglChooseConfig; flips that mmap_test does not look at, and mappings it only
\* reports; CRTCs that gamma_test passes over.
Hidden(p) ==
  CASE p = "mapped_texture_test" ->
         {<<"flush", 1>>, <<"draw", 2>>, <<"wait", 1>>}
    [] p = "swrast_test" ->
         Each({"choose_config", "shader", "compile", "program", "link"}, {0, 1})
    [] p = "mmap_test" -> Each({"flip"}, 1 .. 4) \cup Each({"map"}, {0, 1})
    [] p = "gamma_test" -> Each({"pipe", "gamma_size", "mode"}, {0, 1})
    [] OTHER -> {}

\* The status: 0 says that no other call failed, anything else that one did.
StatusHonest ==
  Ended /\ ~aborted =>
    /\ ret = 0 => failed \subseteq Hidden(program)
    /\ failed = {} => ret = 0
=============================================================================
