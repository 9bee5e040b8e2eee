# A TLA+ model of drm-tests

drm-tests is a C library, *bsdrm*, and a set of programs that use it to exercise
the Linux graphics stack: mode setting (KMS), buffer sharing (GBM, dma-buf,
dumb buffers), EGL/GLES and Vulkan.  The programs are tests of kernels and
drivers, so their own errors pass for errors of the driver, or hide them.  This
directory models the parts of library and programs that keep state across
calls: searches, clean-up after partial failures, who owns which descriptor or
object, and the races of a program with the GPU and the display.

The kernel, libdrm, GBM, EGL and the drivers are not in the repository.  They
appear as nondeterminism: a call may fail whenever the code has a branch for its
failure, an object may turn unreadable between two reads, an event may come at
any time.  Definitions that stand for them are marked external in the map.

## 1. Inventory

Line numbers are those of `src/`.

| Component | State | Operations | Interacts with | What is hard |
|---|---|---|---|---|
| **Pipe plumber** `bsdrm/src/drm_pipe.c`, `pipe.c` | the plumber (card, rank table, CRTC mask, wish for the connector); in a call: descriptors, connectors, a stack of search entries, best rank so far | `_new`, `_destroy`, four setters, `_make` | opens all cards; reads connectors, encoders, CRTCs through libdrm; hands descriptor and connector to the caller | backtracking through a stack whose entries remember what was tried; rounds that resume where the last one stopped; pruning by rank; hand-over against clean-up |
| **Connector ranks** `drm_connectors.c` | constant tables | `bs_drm_connectors_rank` | plumber | first match decides, wildcard, skip |
| **Opening a card** `open.c`, `drm_open.c` | descriptor of the card being looked at, best descriptor and rank | enumerate, filtered and ranked bodies; for display, main display, VGEM | `dup` and `close`, libdrm | close, dup and callback in the right order with few descriptors; objects that vanish between two reads |
| **Application helper** `app.c` | card, GBM device, array of framebuffers, `setup` | new, destroy, setters, setup, display | opening, plumber, fb builder, GBM | partial failure of any of the many steps of setup; retry after failure |
| **Mapper** `mmap.c` | mapper kind, dumb mapper's device descriptor | three constructors, map, unmap, destroy | `draw.c`, `mmap`, ioctls on dma-buf | planes that share an object; failures in the middle; EINTR retry |
| **Drawing** `draw.c` | planes mapped for the drawing; the table of formats | draw colour, stripe, ellipse, cursor, lines | mapper | the third plane fails when two are mapped; sub-sampling, packed formats, rows longer than the picture |
| **Framebuffer builder** `drm_fb.c` | four arrays of plane entries, format | new, destroy, from a buffer, format, create; all of it on the stack | app, programs | entries of an earlier buffer, junk of the stack; more than four planes |
| **EGL helper** `egl.c` | display, context, extension flags | setup, destroy, images, framebuffers, syncs | programs | order of creation and destruction, guarded by assertions; failure in the middle of setup |
| **GL helper** `gl.c` | none | compile shaders, link a program | programs | giving back the shaders on each way out |
| **Debug** `debug.c` | none | print | all | nothing |
| **Page flip loops** `null_platform_test.c`, `mapped_texture_test.c`, `vk_glow.c` | current buffer, frame, `waiting_for_flip`, framebuffers | draw, wait for the GPU, flip, wait for the event, clean up | GPU, vertical blank, the kernel's event queue | four actors on two buffers; an event that carries a pointer to a local variable |
| **Atomic test** `atomictest.c` | copies of all plane, CRTC and connector properties; the growing request; framebuffers, blobs, fences, a timeline thread | sixteen cases, test and commit, page flip wait, enable and disable CRTC | kernel's atomic state, sw_sync, mapper, plumber | what a case leaves to the next; ids in the request that outlive their objects; a commit that blocks on a fence |
| **Plane test** `plane_test.c` | per test plane: centre, speed, size, framebuffer; the planes found | search for overlay planes; move, scale, set | opening, plumber, mapper, `drmModeSetPlane` | greedy search; calls that are skipped when nothing changes; turning at the edge |
| **Other programs** `linear_bo_test.c`, `mmap_test.c`, `gamma_test.c`, `drm_cursor_test.c`, `vgem_test.c`, `swrast_test.c`, `example/stripe.c`, and the set-up of the page flip programs | local variables of one pass | one sequential pass with labels | library | dozens of ways out, each of which undoes by hand what was done; variables without a value; a status that hides a failure |
| **Generator and build** `rk3288_hdmitables.py`, makefiles | none | | | nothing |

What makes each component right:

* plumber: the pipe returned satisfies all constraints and none of a better
  rank exists; false only if there is none; every call ends; nothing leaks and
  nothing of the caller's is closed;
* opening: the first card that passes, or the lowest rank; no descriptor leaks;
* application: all resources or none, in every order of calls and failures;
* mapper and drawing: pointers cover the plane, and what was mapped, opened or
  started is undone on every path;
* page flips: no drawing into a visible buffer, one flip under way, in order,
  and no wait without end;
* atomic test: requests name live objects, every case begins from a clean
  state, fences are signalled before they are waited for in vain;
* plane test: distinct planes that fit, and the card shows what the program has;
* builder and EGL helper: only entries of the current buffer reach the kernel,
  and no assertion fails on an error path;
* programs: what was taken is given back once on every way out, nothing is used
  that is not there, and status 0 means that nothing failed.

The hazards behind these, each at its line, are listed in `PROJECT.json`.

## 2. Modules

    DrmHardware                cards, connectors, encoders, CRTCs; rank tables
      |-- DrmPipe  ==>  BestPipe     the search implements the abstract promise
      |     |-- DrmPipeMC             machines for TLC
      |     `-- DrmPipeProofs
      `-- DrmOpen -- DrmOpenMC, DrmOpenProofs
    App -- AppMC, AppProofs
    PageFlip -- PageFlipProofs
    DrawFormats <- Mapper -- MapperMC, MapperProofs
    AtomicCases <- AtomicTest -- AtomicTestMC, AtomicTestProofs
    PlaneTest -- PlaneTestMC, PlaneTestProofs
    TestScripts, Egl, FbBuilder <- TestPrograms -- TestProgramsMC, TestProgramsProofs

`DrmHardware` is shared by the two modules that look for pipes, so that both
are judged by the same operator `PipesOn`: the pipes a machine has, defined by
sets and quantifiers and not by any search.  Definitions whose name is that of
another one with a suffix (`PieceFails_Underflow`, `Taken_AnyType`) are plausible
errors of the code that are used nowhere in the specifications; `PROJECT.json`
pairs each with the property that catches it.

In each module an action is one step of the code between two points at which
another actor, a failure or a return can intervene; names are those of the
source where it has one.

**DrmPipe** (`drm_pipe.c` 8-296, `pipe.c`).  `New`, `Destroy` and the four
`Set...` actions are the public calls; `MakeOnCard` and `MakeOnAnyCard` begin
`bs_drm_pipe_plumber_make`.  `ScanCard` opens one card, `CollectConnectors`
lists the connectors of one, `StartRound` begins a round of the search
(`ctx.best_rank`, `first_connector_index`, a cleared stack).  `ConnectorPiece`,
`EncoderPiece` and `CrtcPiece` are the three callbacks, each with the copy of
the stack entry `bs_pipe_make` makes before and the step back it takes when the
callback fails; `RoundMade` keeps the best pipe and asks for a better one,
`Finish` hands over and cleans up.  `asked` and `unread` are history: the pipes
that satisfy the request, and what could not be read during it.

**BestPipe** says what a caller may rely on: one answer for each request, from
the allowed ones, or none.  It has no search; `DrmPipe!Promise` instantiates it.

**DrmOpen** (`open.c`, `drm_open.c`).  `Request` starts one of the three public
calls, `OpenCard`, `Body`, `CloseCard` are the turns of `bs_open_enumerate`, with
`FilteredBody` or `RankedBody` as the body, `Return` the end.  Descriptors are a
bounded resource: `open` and `dup` fail when the table is full.

**App** (`app.c`).  One action per call and, in `bs_app_setup` and
`bs_app_destroy`, per resource and loop turn: `OpenCard`, `CreateDevice`,
`MakePipe`, `CreateBo`, `CreateId` each with its refusal and the label it jumps
to, `UndoFb`, `UndoFbs`, `DestroyDevice`, `CloseFd` for the labels, `Drop...` for
destroy.  `misused` records that something not live was given back or used.

**PageFlip** (the frame loops of three programs; variable `program` tells
which).  Actors: the program (`SetCrtc` .. `Flipped`, then `Cleanup`), the GPU
(`GpuDone`), the display (`VBlank`), and the user who closes a wait early
(`StopWaiting`).  A flag is named by the frame whose turn owns the variable.

**Mapper** (`mmap.c`, and `draw_color` of `draw.c`).  Memory is an array of pages,
each free, the program's own, or a page of a buffer; `mmap` places a mapping
wherever there is room.  `StartDraw` to `Return` is one drawing call.  **DrawFormats**
is the table `bs_draw_formats` with the loop of `draw_color` over it (`Written`:
which byte of which plane, made from which pixels), and next to it
`PlaneLayout`, the formats as the fourcc codes define them.  `PlanesVisible`
compares the two through the mapping.  `SizeUpTo` is the loop of `dma_buf_map` over
the planes, as a function of how far it has come.

**FbBuilder** (`drm_fb.c`) has one operation per function.  Fields that nobody wrote
hold `Junk`, as those of the builder on the stack of `bs_drm_fb_create_gbm` do.

**Egl** (`egl.c`): the struct, the display and context behind it, images and
framebuffers.  An operation has an outcome for each point it can fail at and
says what it leaves alive then.  A failed assertion is `aborted`, a misuse that
the program survives is one of `faults`.

**TestScripts** writes ten programs as sequences of calls, each with what is done
if it fails, that is, with the steps behind the label it jumps to; the shader
code of `gl.c` is part of those that use it.  **TestPrograms** carries them out
against `Egl` and `FbBuilder`, each call failing or not, and keeps what is alive,
which variables name an object, which were never written, and what failed.  Two
more programs are free clients of the EGL helper and of the builder, that call
in any order.

**AtomicCases** writes each of the sixteen cases of `atomictest.c` as a sequence
of steps, such as initialise plane, set its properties, test and commit, that
depends on the machine and the CRTC; steps carry how far a failure skips.
**AtomicTest** executes them against the program's copies of the properties, the
request (`pset`, `base` for the saved cursor) and the kernel (`kms`).  `PageFlip`
and `IncTimeline` are the other actors: the display, and the thread that signals
the fence.  A macro that evaluates its argument twice when it fails
(`CHECK_RESULT`, line 34) makes the call twice here as well.  Places and sizes of
planes are numbers of the code, with the unsigned 32-bit differences of
`move_plane` and the rounding of `scale_plane`.  `PlaneLists` and `TypeLists` are what
`get_planes` finds, for every machine and CRTC once, so that they can be reasoned
about (and evaluated) as functions.

**PlaneTest** (`plane_test.c`).  `PreparePlane` sets up one test plane,
`LookAtPlane`, `SkipPlane`, `PlanesFound`, `PlanesNotFound` are
`find_overlay_planes`, `UpdatePlane` is one inner turn of the loop, with
`update_test_plane` and `drmModeSetPlane`, `TimeUp` and `CleanUp` the end.

## 3. Runs

| Run | States | What it asks | Bounds |
|---|---|---|---|
| `drm_pipe` | 353,496 | Is the answer of `_make` one of the best (`AnswerIsBest`), does ownership balance (`OwnershipBalanced`), does the call end (`MakeReturns`), and does the whole implement `BestPipe` (`KeepsPromise`)? | 2 cards, 3 connectors, 3 encoders, 2+1 CRTCs, 64 machines, 2 rank tables, 2 masks, every setting, 1 call |
| `drm_open` | 346,935 | `FilteredIsFirst`, `RankedIsLowest`, `DisplayHasPipe`, `OnlyUnusableLeak` | 3 cards, 4 connectors, 3 encoders, 1-3 free descriptors, 2 requests in a row |
| `drm_open_fallback` | - | does the main display fall back as documented? violated | as above |
| `app` | 433 | `AllOrNothing`, `ReadyIsComplete`, `NeverMisused` | 1, 2 or 3 framebuffers, 3 setups, any step refused |
| `page_flip` | 809 | `NoTearing`, `FlagInScope`, `FramesInOrder`, `Ends` | 2 buffers (the code's number), 4 frames, all three programs |
| `mapper` | 428,393 | `PlanesVisible`, `MappingsUndone`, `UnmapsOwn`, `NothingLeftOpen`, `DrawReturns` | 6 buffers with all 11 formats between them (packed, two and three planes in one object, in two objects, rows with a gap), pages of 4 bytes, 2 drawings, 2 retries, any call failing |
| `atomic` | 79,454 | `CommitsAreLive`, `CleanSlate`, `OneFlipAtATime`, `TimelineOutlivesThread`, `Ends` | 5 machines of 3 planes and 2 CRTCs, screens of 1000x900, 1000x600 and 640x480, each case alone and all in turn, 2 formats, any request refused |
| `atomic_out_fence` | - | is there a fence where line 1095 checks for one? violated | as above, nothing refused that is in order |
| `atomic_no_planes` | - | no active CRTC without planes, as line 635 says? violated | as above |
| `plane_test` | 4,870 | `PlanesFit`, `ShownIsCurrent`, `StaysNear` | 5 cards of up to 3 planes, 6 arguments, factors of 0 among them, 12 loop turns, screen 8x5, speed 3, `Word` 64 for 2^32, any call failing |
| `plane_test_greedy` | - | does the search fail only when there is no assignment? violated | as above, no call failing |
| `programs` | 280,137 | `RequestIsOwn`, `FaultsAreKnown`, `LeavesOnly`, `StatusHonest` | 10 programs and 2 clients, any call failing, 3 planes to an image, one frame to a loop |

Every run also checks its module's `TypeOK`, which includes array bounds.

Why the bounds are enough.  *drm_pipe*: going back needs two connectors that
compete for encoders or CRTCs, resuming needs a second card behind them, a
second round needs a tie and a better rank later on; the machines contain each
of these with unreadable, unplugged and skipped connectors mixed in.  State
that one call could leave to the next is covered by the theorems of
`DrmPipeProofs`, which hold for any number of calls.  *drm_open*: the best
descriptor is replaced at the second and third card, and one to three
descriptors are too few, just enough and plenty.  *app*: a loop over three
framebuffers has a first, a middle and a last one, and three setups are a
failure, a retry and a second application.  *page_flip*: the state repeats after two
frames but for the frame number.  *mapper*: with pages of four bytes planes
begin and end inside pages, pictures have the even sizes that sub-sampled
formats need, two rows or samples in each direction, and the second drawing
meets what the first left.  *atomic*:
the second CRTC, and the second case, meet what the first left; more of either
meets the same.  The three screens are larger than the video, lower than it, and
smaller in both directions.  A plane whose place is past `Farthest` (1001, beyond
every screen) moves no further: this cuts only the loop that never ends.
*programs*: a sequence has no loop but over two buffers and over two CRTCs of the
gamma test, which has a first and a last one; one frame of each kind, because
`page_flip` has the frames.  The builder's client has buffers of one, three and
five planes, one of them more than a request takes, and `spilled`, the count of
forgotten descriptors, stops at `MaxSpilled` = 3, since only zero is told from
more.  *plane_test*: twelve turns cross the small screen and come
back, and no size but a wrapped one reaches `Word`, the number of values of a
`uint32_t`; the theorems hold for any of either.

Deadlock checking is off where the program ends or its requests are used up:
`drm_open`, `page_flip`, `atomic`, `plane_test`, `programs` and the violation runs
beside them.  In `drm_pipe`, `app` and `mapper` the caller can always make another call,
so that a deadlock would be a call that is stuck, and is checked for.

## 4. Fairness

Fairness stands only where something guarantees it.

* `DrmPipe`, `Mapper`: weak fairness of the steps inside a call.  The code
  is sequential there and every modelled system call returns.  The caller is
  not fair: it need not call again.
* `PageFlip`: weak fairness of the program, of the GPU (a job given to it is
  finished; `glFinish` relies on it) and of the vertical blank (the kernel
  completes an accepted flip).  `StopWaiting` is a choice and has none.
* `AtomicTest`: the same for the program, the page flip the kernel has accepted
  and the thread that increments the timeline.
* The other modules have none, and no liveness is asked of them: their calls are
  loops over fixed arrays, and sequences.

## 5. Proofs

TLC sees a handful of machines; the theorems hold for all values of the
constants, under the named assumptions of the modules that declare them.
These say that the constants have their types, that `Null` (and in `DrmPipe`
`Pending`, in `Mapper` `Free` and `Heap`) is none of the values it is to be told
from, and:

* `MapperAssumption`: what GBM's buffers are like.  Planes of one handle follow each
  other without gaps, as minigbm lays them out; the planes are those of the
  format, each with room for its rows, and the blocks of a format divide the
  sides of the picture (`Holds`).
* `OpenAssumption`: ranks of connector types lie between 1 and the rank of all
  others, and that below `Skip`.
* `AtomicAssumption`: CRTCs and planes are numbered from 1, a CRTC has a mode and
  a primary plane, and no screen reaches as far as the bound `Farthest`.
* `PlaneTestAssumption`: a plane is set to move (`Speed`) by no more than the screen is wide.
* `ProgramsAssumption`, `EglAssumption`: programs are among those of the module, and
  an image has one to four planes.

One theorem has a hypothesis of its own.  `FaultsAreAlwaysKnown` asks, where the
client of the EGL helper is among the programs, for images of at most three
planes, as all formats of the repository have.  The array of attributes in
`bs_egl_image_create_gbm` has 39 entries (`egl.c:198`: "When the bo has 3 planes with
modifier support, it requires 39 components"), and a fourth plane does not fit.

| Theorem | Says | Inductive invariant |
|---|---|---|
| `DrmPipeProofs!TypeCorrect` | types, and no index outside its array, in the whole search | `Structure` |
| `DrmPipeProofs!OwnershipIsBalanced` | between calls, exactly the caller's descriptors and connectors are open and allocated | `Structure /\ Ownership` |
| `DrmPipeProofs!TheAnswerIsBest` | `AnswerIsBest`: the pipe fits the request, none that could be seen has a lower rank, and false means that none could be seen | `Structure /\ Search` |
| `DrmPipeProofs!ThePromiseIsKept` | the search implements `BestPipe`, step by step | the same |
| `DrmOpenProofs!NothingUsefulLeaks` | `OnlyUnusableLeak` for every machine, limit of descriptors and number of requests | `Inv` |
| `DrmOpenProofs!OpenTypeCorrect`, `TheFirstThatPasses`, `TheLowestRank`, `MainDisplayHasPipe` | `TypeOK`, `FilteredIsFirst`, `RankedIsLowest`, `DisplayHasPipe` for every machine and number of cards | `All` |
| `AppProofs!AppTypeCorrect`, `NothingIsMisused`, `SetupIsAllOrNothing`, `SetupIsComplete` | `TypeOK`, `NeverMisused`, `AllOrNothing`, `ReadyIsComplete` for every number of framebuffers and setups | `Inv` |
| `PageFlipProofs!PageFlipTypeCorrect`, `NothingTears`, `FlagAlwaysInScope`, `FramesStayInOrder` | `TypeOK`, `NoTearing`, `FlagInScope`, `FramesInOrder` for any number of frames | `Inv` |
| `MapperProofs!MapperTypeCorrect`, `DescriptorsAndAccessesEnd` | `TypeOK`, `NothingLeftOpen` for all buffers, page sizes and failures | `Inv` |
| `MapperProofs!MappingsAreUndone`, `UnmappingIsOwn` | `MappingsUndone`, `UnmapsOwn` for the same | `Inv /\ Places` |
| `MapperProofs!TheFormatIsWritten` | for each format and pictures of every size, `draw_color` writes exactly the bytes the fourcc code defines, each from its pixels | none: about operators |
| `MapperProofs!PlanesAreVisible` | `PlanesVisible`: the same through the pointers, into memory | `Inv /\ Places /\ Drawn` |
| `DrmPipeProofs!RoundsEnd` | every step of the search makes what is left of it less | `Structure /\ Search /\ WithinArrays` |
| `PageFlipProofs!EveryStepIsTowardsTheEnd`, `NoWaitIsInVain` | every step of program, GPU or display brings the end nearer; a program that waits has a flip or an event to wait for | `Inv` |
| `MapperProofs!CallsGetNearerTheirReturn` | every step of a drawing brings its return nearer, interrupted ioctls included | `Inv` |
| `TestProgramsProofs!RequestIsAlwaysOwn` | `RequestIsOwn` for all buffers and any order of calls, of the builder alone (`BuilderSpec`) | `BuilderInv` |
| `TestProgramsProofs!ProgramsTyped`, `FaultsAreAlwaysKnown`, `LeavesOnlyThat`, `StatusIsHonest`, `ProgramsAskForTheirOwn` | `TypeOK`, `FaultsAreKnown`, `LeavesOnly`, `StatusHonest`, `RequestIsOwn` for all ten programs and both clients, whichever calls fail | `ProgramsInv` (`ProgramsStep`) |
| `AtomicTestProofs!FlipsAreAwaited` | `OneFlipAtATime` for every machine, choice of cases and refusal | itself |
| `AtomicTestProofs!CasesProper` | no sequence of steps that is one of the sixteen cases uses a destroyed blob, and each gives back what it makes on every way out | none: about operators |
| `AtomicTestProofs!TypesAreKept`, `SlateIsCleaned`, `CommitsStayLive`, `TimelineIsOutlived` | `TypeOK`, `CleanSlate`, `CommitsAreLive`, `TimelineOutlivesThread` for the same | `Inv` |
| `PlaneTestProofs!PlaneTestTypeCorrect` | types of the whole program | `IType` |
| `PlaneTestProofs!PlanesAlwaysFit` | `PlanesFit` for all cards and arguments | `IFit` |
| `PlaneTestProofs!ShownRemainsCurrent` | `ShownIsCurrent` for the same, and any number of turns | `IType /\ IFit /\ ICurrent` |
| `PlaneTestProofs!PlanesStayNear` | `StaysNear` for all screens and speeds with `Speed <= Display` | `IType /\ INear` |

*Why the invariants are stronger than what they prove.*

*The pipe search.*  `TypeOK` of `DrmPipe` says that stack entries are numbers; that
the connector index of an entry lies in the array follows only from how far the
search has come.  `Structure` therefore says for every entry below the current
piece what has been filled in, and that the best pipe kept is completely filled
in.  `Ownership` adds, for a call under way, the list of what it has opened and
allocated so far (its descriptors, their resources, its connectors) and that
this is disjoint from what the caller owns, because the last step frees by that
list.  That the answer is best is a statement about what the search has behind
it.  `Lists` says that the arrays hold every connector of every card asked about
but those that could not be read.  `DoneBefore(n)` says that no pipe of an entry
before `n` is better than the best so far; it holds of the entry the round looks
at (`StackTells`, which also counts the encoders tried) and of the entry at which
the next round begins (`first_connector_index`), which is why resuming there
loses nothing.  `ThePromiseIsKept` needs only this: the answer is given in one
step, and every other step changes nothing that a caller sees.

*Opening.*  That nothing leaks needs to know whose a descriptor is: `Provenance`
tells the copy of a request from the descriptor it was copied from and from
those of earlier requests, so that closing one never closes another, and
`Accounted` says that there are no others.  That the answer is right is a
statement about the cards the enumeration is done with (`Behind`): none of them
is sure to pass (`FilteredSoFar`), none is sure to rank below what is kept
(`RankedSoFar`).  This holds only if no card was passed over for want of a
descriptor, and for that `Spare` counts the table: with two slots free when the
request began, the best so far and the card looked at always fit.  The rank is a
`CHOOSE` of a least element, which `LeastRank` shows to exist.

*Application.*  The labels undo "the framebuffers up to the one refused", so `Inv`
says for each program point which prefix of the array is filled (`Filled`), which
entries are zero, and that the live objects are exactly those (`Phase`, `Entries`,
`Live`).

*Page flips.*  `Places` says for each point of the loop which buffer is on the
screen and which flip is under way, `GpuWorks` where the GPU may still be drawing,
and `Contents` which frame each has; the last two hold only as long as no wait for
the GPU was given up (`unsynced`).

*Mapper.*  `Progress` counts the planes and `Accesses` the accesses against them.
`Places` says where each mapped plane lies: `Placed`, that the pages its pointer
leads to are those of its object, from the first byte to the end of the plane;
that planes have no page in common; and that no other page is one of a buffer,
but for what `dma_buf_unmap` leaves of an object that planes share.  Unmapping a
plane therefore frees pages of that plane only (`UnmapsOwn`), and the last one
leaves nothing (`MappingsUndone`).  That the length `dma_buf_map` adds up reaches to
the end of the plane (`PlanesLie`) is where the sum of the loop comes in.  `Drawn`
keeps what was drawn until the call returns.  The formats are proved in two
halves, every byte written is one of the format (`Describes`: component for
component, row by row, also where a component has a sample for every second
pixel only) and every byte of the format is written (`Described`); the table of
`draw.c` enters in one lemma for each group of formats.

*Framebuffer builder.*  `RequestIsOwn` speaks of the request made; `Describes` of the
builder it is made from, and leaves its further entries open, because
`create_fb` clears them.

*Atomic test.*  The cases are sequences put together from shorter ones, for as many
planes and formats as the machine has, and an invariant cannot name their steps
one by one.  It is therefore stated in two parts.  *Marks* say what a state may
have: a framebuffer of a plane, a blob that is live or was destroyed but is
still referred to, a fence, a plane that does not know of the fence, a timeline
held by its thread.  `Proper(P, X, Y)` are the sequences that, begun with the
marks `X`, never make a step forbidden with the marks it is reached with, along
every skip a failure makes, and end with `Y`.  Lemmas show that joining sequences,
doing one for each plane, and skipping keep this, and `CasesProper` applies them
to the sixteen cases.  `Inv` then says that the marks of the state (`Real`) are among
those of the step it has come to (`Tracked`), beside what ties the program's
copies, the request and the kernel's objects together (`Inside`).  What a case
leaves is in `Leaving` and `Over`.  They except a case that failed for good
(`ret = -1`): the program ends then, and `CleanSlate` is about cases that begin.

*Plane test.*  `PlanesFit` alone does not show that a plane is not taken twice:
`Finding` adds that every plane taken lies before `plane_index`.  `ICurrent` says for
every test plane set so far that it is shown as the program has it, and that its
place follows from its centre and size, so that a plane that did not change need
not be set again.  `INear` restates `StaysNear` so that it also holds for a plane
that is inside.

*The programs.*  The steps a program has left are data here as well, and what a
step may do depends on everything the program holds.  The invariant therefore
speaks of the rest of the program: `Fine(p, t, e)` says that, begun in a state `e`,
the steps `t` of program `p` keep a discipline to the end, whichever of them fail.
It is the greatest set of steps and states that each next step (`After`) stays
in (`Closed`), in which each step is `Allowed` (nothing is taken that is there
already; nothing is given back, read or asserted wrongly unless a failure of
the table `Fatal` came before), and in which a program ends as it should
(`MayEnd`: what is left, which status, and that a failure of `Fatal` has shown).
Three groups of lemmas follow.  The invariant `ScriptInv`, that what is left is
`Fine`, is inductive whatever the programs are, step of the model by step of the
discipline.  From it follow the properties.  And each program is `Fine` from its
first step, by rules on pieces of it: `Leads(p, e, s, f)`, the steps `s` lead from `e`
to `f`, for each kind of step and for pieces one after the other, and `LeadsInto` for
sets of states, where a failure is passed over and the program goes on; the
labels of a program are shown first, from the last to the first, then the steps
that jump to them.  The two clients, who call in any order, have invariants of the
usual form (`EglClientInv`: a struct whose setup succeeded has its display and a
live context, and a context without its setup is `Spoiled` by a setup that failed
late).  `SpilledInv` counts the forgotten descriptors.

*Why calls end.*  Liveness cannot be proved here, but most of its argument can:
a number, or a tuple of numbers, that every step makes less.  `Left` of `PageFlip`
adds up what remains of the turn, the turns, and the work of the GPU and the
display; `Left` of `Mapper` the planes left, each with the retries of its ioctl;
`Left` of `DrmPipe` has the part of the call first, then the entries, then the
pieces of an entry, in lexicographic order, which `OrderIsWellFounded` shows to be
well founded.  A round begun anew begins behind the entry that the last one
found, so that it counts less.  `NoWaitIsInVain` adds that a wait of the loops is
one for an actor who has something to do.  What stays with TLC is the last step,
from these and fairness to the temporal property.

Each proof has the same outline: a lemma that the initial states satisfy the
invariant, one lemma per group of actions, and a temporal step.  What the
operators return (`RankInRange`, `FirstCandidate`, `ElementsAppend`, ...) is stated
in lemmas of its own.  Where an operator is recursive over a sequence
(`SizeUpTo`, `FlattenSeq` of the cases, `Part`), a lemma shows first that a function
as it describes exists, and what it yields then follows from the least number
for which it would fail (`UpTo`).

*Only model-checked.*  Liveness (`MakeReturns`, `DrawReturns` and `Ends` of the page
flips and of the atomic test), because it rests on fairness and with that on
`ENABLED`, which the prover does not handle.  Every other property of a passing run
is stated by a theorem.

## 6. Abstractions and what is not modelled

* Masks have as many bits as the constant `MaskBits`, not 32; ranks are small.
* `DrmOpen`: the driver's name is a model value, and being a prefix of "vgem" a
  set of names, because `vgem_filter` compares as many characters as the name has.
* `Mapper`: the values of colours are left out, as are the patterns (`compute_*`)
  and the conversion of colours in `draw.c`: they decide what a byte is, not
  where it goes.  A byte written is known by the pixels it was made from.
* `AtomicTest`: formats, rotation values, the initial values of properties and the
  command line are left out.  CTM and gamma table of a CRTC are one field, since
  the code treats them alike.
* `TestPrograms`: an object is named by its kind and the variable that keeps it.
  Kernel objects that go with their card or process are not counted as given
  back when the card is closed, and deleting a GL name that is not in use is not
  a fault, as GL ignores it.  `munmap` of what `mmap` returned does not fail.  The
  loop of `mmap_test` from `MAP_FAILED` may fault or make no turn, as its end is
  undefined.  Options have their defaults; comparing pictures is
  one call that may fail.
* `PlaneTest`: arguments are parsed already; the source rectangle is constant.  A
  size that does not fit into a `uint32_t` becomes 0 or the largest one, the two
  values that builds produce.
* `PageFlip`: set-up and clean-up of the three programs are sequences of
  `TestScripts`.
* Not modelled: `debug.c`, which formats messages that nothing depends on; the
  generator of HDMI tables, floating point for a driver that is not here; the
  build files.  Nothing of these keeps state.  Reasons are in `PROJECT.json`.

## 7. Findings

Disagreements met while modelling, quoted with their lines in `PROJECT.json`.
Four have a run that exhibits them:

1. `bs_drm_open_main_display` does not fall back to `bs_drm_open_for_display`
   (`bs_drm.h:149`): run `drm_open_fallback`.
2. The fence of one case of the atomic test stays in the plane's properties, so
   that with all cases in turn a later check fails: run `atomic_out_fence`.
3. Every case of the atomic test ends with a commit that leaves a CRTC active
   without planes, which the program says cannot be: run `atomic_no_planes`.
4. `find_overlay_planes` is greedy and fails where an assignment exists: run
   `plane_test_greedy`.

The others are listed there too, among them: `munmap` with the length of one plane
where several were mapped; descriptors not closed by `dumb_map`, by
`bs_egl_image_create_gbm` and by `linear_bo_test`; a `continue` past the release of a
connector; a macro that makes failing calls twice; loops of the atomic test that
never end for a plane larger than the screen, or whose size rounds to itself; a
context kept by a failed EGL set-up; an image destroyed twice in `linear_bo_test`
and labels of `create_framebuffer` in the wrong order, both of which end in an
assertion; a division by a factor of 0 in the plane test, and properties it reads
without having them; a timeline a failed check leaves open; the wrong index in the clean-up of `null_platform_test`; and programs
that fail with status 0.  Where a property would hold but for one of these, the
property excepts exactly that case and says so.  `FaultsAreKnown`, `LeavesOnly` and
`StatusHonest` go further: their tables (`Fatal`, `LeftBehind`, `Hidden`) list the
exceptions, and the first also demands that each of them happens, so that
a repair shows as well as a regression.

## 8. Plan

Done, in this order: opening and the pipe search (everything else depends on
them), the application helper, page flips, the mapper, the atomic test, the
plane test; then the formats of drawing, the arithmetic of the atomic test, the
framebuffer builder, the EGL helper and the programs that run from top to
bottom; then theorems, until every safety property of every module, the
refinement of `BestPipe`, and that the steps of three loops get less were proved.
Left:

1. Composition of `App` with `DrmOpen` and `DrmPipe`: the setup fails only when the
   machine has no pipe or a resource is refused.  Each half is proved alone
   (`MainDisplayHasPipe` and `TheAnswerIsBest`).
2. What is left of a case of the atomic test gets less with every step: true but
   for the loops that do not end (`Farthest`).
3. The patterns of `draw.c` on small pictures.
