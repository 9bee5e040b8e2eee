-------------------------------- MODULE App --------------------------------
(***************************************************************************)
(* struct bs_app of bsdrm/src/app.c: an application's card, GBM device and *)
(* framebuffers, from bs_app_new to bs_app_destroy.  bs_app_setup takes    *)
(* its resources one after the other, any of which may be refused, and     *)
(* gives back what it has through the labels destroy_fbs, destroy_device   *)
(* and close_fd; it may then be called again.                              *)
(***************************************************************************)
EXTENDS Integers, FiniteSets

CONSTANTS
  Null,         \* NULL, 0 of a framebuffer id, -1 of fd
  FbCounts,     \* framebuffer counts a caller may set
  MaxSetups     \* bound: calls of bs_app_setup

\* A descriptor and a GBM device are named by the setup that made them, a
\* buffer and a framebuffer by the setup and the index as well.
Device == Nat
Buffer == Nat \X Nat

\* The counts there are: 2 unless the caller sets another.
Counts == FbCounts \cup {2}

\* struct bs_app, without connector, CRTC and mode.
AppType == [ setup : BOOLEAN, fd : Device \cup {Null}, gbm : Device \cup {Null},
             fb_count : Counts ]

\* struct bs_app_fb
Fb == [bo : Buffer \cup {Null}, id : Buffer \cup {Null}]
Zeroed == [bo |-> Null, id |-> Null]

ASSUME AppAssumption ==
  /\ FbCounts \subseteq Nat \ {0}           \* assert(fb_count > 0)
  /\ MaxSetups \in Nat
  /\ Null \notin Device \cup Buffer \cup AppType
  /\ \A count \in Counts : Null \notin [0 .. count - 1 -> Fb]

VARIABLES
  app,          \* struct bs_app, or Null
  fbs,          \* self->fbs, or Null
  pc,           \* where bs_app_setup or bs_app_destroy stands
  fb_index,     \* of the loop under way
  setups,       \* calls of bs_app_setup so far
  open,         \* descriptors that are open
  gbms,         \* GBM devices that are live
  bos,          \* buffer objects that are live
  ids,          \* framebuffers that are live
  shown,        \* the framebuffer on the screen, or Null
  misused       \* history: something was given back that was not live

kernel == <<open, gbms, bos, ids, shown>>
vars == <<app, fbs, pc, fb_index, setups, kernel, misused>>

Nothing == open = {} /\ gbms = {} /\ bos = {} /\ ids = {} /\ shown = Null

Init ==
  /\ app = Null /\ fbs = Null
  /\ pc = "idle"
  /\ fb_index = 0
  /\ setups = 0
  /\ Nothing
  /\ misused = FALSE

----------------------------------------------------------------------------
\* What GBM and the kernel do when something is given back; misused records
\* that it was not live, or that something made on it still is.

\* gbm_bo_destroy and drmModeRmFB.  The kernel turns off a CRTC that shows a
\* removed framebuffer.
Release(buffers, framebuffers) ==
  /\ bos' = bos \ buffers
  /\ ids' = ids \ framebuffers
  /\ shown' = IF shown \in framebuffers THEN Null ELSE shown
  /\ misused' = (\/ misused
                 \/ ~ (buffers \subseteq bos /\ framebuffers \subseteq ids)
                 \/ open = {} \/ gbms = {})

gbm_device_destroy(gbm) ==
  /\ gbms' = gbms \ {gbm}
  /\ misused' = (misused \/ gbm \notin gbms \/ bos # {} \/ open = {})

\* Closing the card removes the framebuffers made on it.
close(fd) ==
  /\ open' = open \ {fd}
  /\ ids' = {}
  /\ shown' = Null
  /\ misused' = (misused \/ fd \notin open \/ gbms # {})

----------------------------------------------------------------------------
bs_app_new ==
  /\ app = Null
  /\ app' = [setup |-> FALSE, fd |-> Null, gbm |-> Null, fb_count |-> 2]
  /\ fbs' = Null
  /\ UNCHANGED <<pc, fb_index, setups, kernel, misused>>

bs_app_set_fb_count(fb_count) ==
  /\ app # Null /\ pc = "idle"
  /\ ~app.setup
  /\ app' = [app EXCEPT !.fb_count = fb_count]
  /\ UNCHANGED <<fbs, pc, fb_index, setups, kernel, misused>>

\* bs_app_setup: bs_drm_open_main_display.
OpenCard ==
  /\ app # Null /\ pc = "idle"
  /\ ~app.setup
  /\ setups < MaxSetups
  /\ setups' = setups + 1
  /\ \/ /\ app' = [app EXCEPT !.fd = setups']
        /\ open' = open \cup {setups'}
        /\ pc' = "create_device"
     \/ app' = [app EXCEPT !.fd = Null] /\ UNCHANGED <<open, pc>>
  /\ UNCHANGED <<fbs, fb_index, gbms, bos, ids, shown, misused>>

CreateDevice ==
  /\ pc = "create_device"
  /\ \/ /\ app' = [app EXCEPT !.gbm = setups]
        /\ gbms' = gbms \cup {setups}
        /\ pc' = "make_pipe"
     \/ app' = [app EXCEPT !.gbm = Null] /\ pc' = "close_fd" /\ UNCHANGED gbms
  /\ UNCHANGED <<fbs, fb_index, setups, open, bos, ids, shown, misused>>

\* Mutant of MakePipe: the wrong label.
MakePipe_ClosesOnly ==
  /\ pc = "make_pipe"
  /\ \/ /\ pc' = "create_bo"
        /\ fbs' = [n \in 0 .. app.fb_count - 1 |-> Zeroed]
        /\ fb_index' = 0
     \/ pc' = "close_fd" /\ UNCHANGED <<fbs, fb_index>>
  /\ UNCHANGED <<app, setups, kernel, misused>>

\* bs_drm_pipe_make, drmModeGetConnector and the calloc of fbs.
MakePipe ==
  /\ pc = "make_pipe"
  /\ \/ /\ pc' = "create_bo"
        /\ fbs' = [n \in 0 .. app.fb_count - 1 |-> Zeroed]
        /\ fb_index' = 0
     \/ pc' = "destroy_device" /\ UNCHANGED <<fbs, fb_index>>
  /\ UNCHANGED <<app, setups, kernel, misused>>

\* Mutant of CreateBo: one framebuffer too many.
CreateBo_OneMore ==
  /\ pc = "create_bo"
  /\ fb_index <= app.fb_count
  /\ \/ /\ fbs' = [fbs EXCEPT ![fb_index].bo = <<setups, fb_index>>]
        /\ bos' = bos \cup {<<setups, fb_index>>}
        /\ pc' = "create_id"
        /\ UNCHANGED fb_index
     \/ pc' = "destroy_fbs" /\ fb_index' = 0 /\ UNCHANGED <<fbs, bos>>
  /\ UNCHANGED <<app, setups, open, gbms, ids, shown, misused>>

\* gbm_bo_create for the next framebuffer.
CreateBo ==
  /\ pc = "create_bo"
  /\ fb_index < app.fb_count
  /\ \/ /\ fbs' = [fbs EXCEPT ![fb_index].bo = <<setups, fb_index>>]
        /\ bos' = bos \cup {<<setups, fb_index>>}
        /\ pc' = "create_id"
        /\ UNCHANGED fb_index
     \/ pc' = "destroy_fbs" /\ fb_index' = 0 /\ UNCHANGED <<fbs, bos>>
  /\ UNCHANGED <<app, setups, open, gbms, ids, shown, misused>>

\* Mutant of CreateId: a framebuffer that was refused is passed over.
CreateId_GoesOn ==
  /\ pc = "create_id"
  /\ \/ /\ fbs' = [fbs EXCEPT ![fb_index].id = <<setups, fb_index>>]
        /\ ids' = ids \cup {<<setups, fb_index>>}
     \/ UNCHANGED <<fbs, ids>>
  /\ pc' = "create_bo"
  /\ fb_index' = fb_index + 1
  /\ UNCHANGED <<app, setups, open, gbms, bos, shown, misused>>

\* bs_drm_fb_create_gbm for it.
CreateId ==
  /\ pc = "create_id"
  /\ \/ /\ fbs' = [fbs EXCEPT ![fb_index].id = <<setups, fb_index>>]
        /\ ids' = ids \cup {<<setups, fb_index>>}
        /\ pc' = "create_bo"
        /\ fb_index' = fb_index + 1
     \/ pc' = "destroy_fbs" /\ fb_index' = 0 /\ UNCHANGED <<fbs, ids>>
  /\ UNCHANGED <<app, setups, open, gbms, bos, shown, misused>>

SetupDone ==
  /\ pc = "create_bo"
  /\ fb_index = app.fb_count
  /\ app' = [app EXCEPT !.setup = TRUE]
  /\ pc' = "idle"
  /\ UNCHANGED <<fbs, fb_index, setups, kernel, misused>>

\* Mutant of UndoFb: no test for a buffer that was never made.
UndoFb_Unchecked ==
  /\ pc = "destroy_fbs"
  /\ fb_index < app.fb_count
  /\ LET fb == fbs[fb_index]
     IN  Release({fb.bo}, {fb.id} \ {Null})
  /\ fb_index' = fb_index + 1
  /\ UNCHANGED <<app, fbs, pc, setups, open, gbms>>

\* destroy_fbs: one framebuffer.  Those the loop above did not reach are zero.
UndoFb ==
  /\ pc = "destroy_fbs"
  /\ fb_index < app.fb_count
  /\ LET fb == fbs[fb_index]
     IN  Release({fb.bo} \ {Null}, {fb.id} \ {Null})
  /\ fb_index' = fb_index + 1
  /\ UNCHANGED <<app, fbs, pc, setups, open, gbms>>

UndoFbs ==
  /\ pc = "destroy_fbs"
  /\ fb_index = app.fb_count
  /\ fbs' = Null
  /\ pc' = "destroy_device"
  /\ UNCHANGED <<app, fb_index, setups, kernel, misused>>

DestroyDevice ==
  /\ pc = "destroy_device"
  /\ gbm_device_destroy(app.gbm)
  /\ app' = [app EXCEPT !.gbm = Null]
  /\ pc' = "close_fd"
  /\ UNCHANGED <<fbs, fb_index, setups, open, bos, ids, shown>>

CloseFd ==
  /\ pc = "close_fd"
  /\ close(app.fd)
  /\ app' = [app EXCEPT !.fd = Null]
  /\ pc' = "idle"
  /\ UNCHANGED <<fbs, fb_index, setups, gbms, bos>>

\* bs_app_display_fb; drmModeSetCrtc may refuse.
bs_app_display_fb ==
  /\ app # Null /\ pc = "idle"
  /\ app.fd # Null /\ fbs # Null
  /\ \E index \in 0 .. app.fb_count - 1 :
       /\ shown' \in {shown, fbs[index].id}
       /\ misused' = (misused \/ fbs[index].id \notin ids)
  /\ UNCHANGED <<app, fbs, pc, fb_index, setups, open, gbms, bos, ids>>

----------------------------------------------------------------------------
\* bs_app_destroy: an application that is not set up has nothing to give back.
bs_app_destroy ==
  /\ app # Null /\ pc = "idle"
  /\ IF app.setup
     THEN pc' = "drop_fbs" /\ fb_index' = 0 /\ UNCHANGED app
     ELSE app' = Null /\ UNCHANGED <<pc, fb_index>>
  /\ UNCHANGED <<fbs, setups, kernel, misused>>

\* One framebuffer: the buffer goes before the framebuffer made of it.
DropFb ==
  /\ pc = "drop_fbs"
  /\ fb_index < app.fb_count
  /\ Release({fbs[fb_index].bo}, {fbs[fb_index].id} \ {Null})
  /\ fb_index' = fb_index + 1
  /\ UNCHANGED <<app, fbs, pc, setups, open, gbms>>

DropFbs ==
  /\ pc = "drop_fbs"
  /\ fb_index = app.fb_count
  /\ fbs' = Null
  /\ pc' = "drop_device"
  /\ UNCHANGED <<app, fb_index, setups, kernel, misused>>

DropDevice ==
  /\ pc = "drop_device"
  /\ gbm_device_destroy(app.gbm)
  /\ app' = [app EXCEPT !.gbm = Null]
  /\ pc' = "drop_fd"
  /\ UNCHANGED <<fbs, fb_index, setups, open, bos, ids, shown>>

DropFd ==
  /\ pc = "drop_fd"
  /\ close(app.fd)
  /\ app' = Null
  /\ pc' = "idle"
  /\ UNCHANGED <<fbs, fb_index, setups, gbms, bos>>

----------------------------------------------------------------------------
Call ==
  \/ bs_app_new
  \/ \E fb_count \in FbCounts : bs_app_set_fb_count(fb_count)
  \/ OpenCard
  \/ bs_app_display_fb
  \/ bs_app_destroy

\* One step of bs_app_setup after its first, and of bs_app_destroy.
Setup ==
  \/ CreateDevice \/ MakePipe \/ CreateBo \/ CreateId \/ SetupDone
  \/ UndoFb \/ UndoFbs \/ DestroyDevice \/ CloseFd

Teardown == DropFb \/ DropFbs \/ DropDevice \/ DropFd

Next == Call \/ Setup \/ Teardown

Spec == Init /\ [][Next]_vars

----------------------------------------------------------------------------
SetupSteps == {"create_device", "make_pipe", "create_bo", "create_id",
               "destroy_fbs", "destroy_device", "close_fd"}
TeardownSteps == {"drop_fbs", "drop_device", "drop_fd"}

\* Fields keep their types, and the index stays inside the array fbs.
TypeOK ==
  /\ app \in AppType \cup {Null}
  /\ pc \in {"idle"} \cup SetupSteps \cup TeardownSteps
  /\ pc # "idle" => app # Null
  /\ fb_index \in Nat /\ setups \in Nat
  /\ open \subseteq Device /\ gbms \subseteq Device
  /\ bos \subseteq Buffer /\ ids \subseteq Buffer
  /\ shown \in Buffer \cup {Null}
  /\ misused \in BOOLEAN
  /\ fbs # Null => app # Null /\ fbs \in [0 .. app.fb_count - 1 -> Fb]
  /\ pc \in {"create_bo", "create_id", "destroy_fbs", "drop_fbs"} =>
       fbs # Null /\ fb_index <= app.fb_count

\* bs_app_setup takes everything or nothing, and bs_app_destroy gives back
\* everything (app.c:44-64, 163-181): whichever step was refused, an
\* application that is not set up holds no descriptor, device, buffer or
\* framebuffer.  bs_app_destroy relies on it for an application whose setup
\* failed, and so does the next setup, which overwrites the fields.
AllOrNothing ==
  pc = "idle" /\ (app # Null => ~app.setup) => Nothing

\* An application that is set up has fb_count framebuffers, each live and on a
\* live buffer of its own: bs_app_display_fb can show every one of them.
ReadyIsComplete ==
  app # Null /\ app.setup /\ pc = "idle" =>
    /\ open = {app.fd} /\ gbms = {app.gbm}
    /\ \A n \in 0 .. app.fb_count - 1 : fbs[n].bo \in bos /\ fbs[n].id \in ids
    /\ \A n, m \in 0 .. app.fb_count - 1 : n # m =>
         fbs[n].bo # fbs[m].bo /\ fbs[n].id # fbs[m].id
    /\ shown # Null => shown \in ids

\* Nothing is given back twice, or before what was made on it, and nothing is
\* shown that is not live, although setup and destroy give back buffer and
\* framebuffer in opposite orders (app.c:48-50, 166-169).
NeverMisused == ~misused
=============================================================================
