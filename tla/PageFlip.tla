------------------------------ MODULE PageFlip ------------------------------
(***************************************************************************)
(* The frame loops of null_platform_test.c, mapped_texture_test.c and      *)
(* vk_glow.c: draw into the buffer that is not on the screen, wait for the *)
(* GPU, ask the kernel to flip to it, wait for the event that says it did. *)
(*                                                                         *)
(* Three parties act on their own: the program, the GPU, which finishes a  *)
(* frame some time after it was submitted, and the kernel, which flips at  *)
(* a vertical blank and then queues an event on the card.  Which of them   *)
(* moves first is what the waits of the loop are there to control.         *)
(***************************************************************************)
EXTENDS Integers

CONSTANTS
  Null,
  Last          \* bound: frames of a run, 500 or 120 in the code

NUM_BUFFERS == 2
Buffers == 0 .. NUM_BUFFERS - 1
Frames == 0 .. Last

Programs == {"null_platform_test", "mapped_texture_test", "vk_glow"}

VARIABLES
  program,      \* the program running; never changes
  pc,           \* where its main stands
  i,            \* the frame of the loop
  fb_idx,       \* the buffer the frame is drawn into
  waiting_for_flip,
  ids,          \* framebuffers that are live
  rm_index,     \* of the clean-up loop
  gpu,          \* the frame the GPU is drawing, or Null
  content,      \* the last frame finished in each buffer
  scanout,      \* the buffer on the screen, or Null
  flip,         \* a flip the kernel has accepted and not done, or Null
  event,        \* the flag named by an event not yet read, or Null
  shown,        \* history: the frame last put on the screen
  unsynced      \* history: the GPU was not waited for

loopVars == <<i, fb_idx, waiting_for_flip>>
cleanupVars == <<ids, rm_index>>
gpuVars == <<gpu, content>>
screenVars == <<scanout, flip, event, shown>>
vars == <<program, pc, loopVars, cleanupVars, gpuVars, screenVars, unsynced>>

Job == [buffer : Buffers, frame : Frames]

\* A flip in flight; data is the flag to clear, named by its frame, since
\* waiting_for_flip is a variable of one turn of the loop.
Flip == [buffer : Buffers, data : Frames]

ASSUME FlipAssumption ==
  /\ Last \in Nat \ {0}
  /\ Null \notin Int \cup Job \cup Flip

Init ==
  /\ program \in Programs
  /\ pc = "set_crtc"
  /\ i = 1
  /\ fb_idx = 1
  /\ waiting_for_flip = FALSE
  /\ ids = Buffers
  /\ rm_index = 0
  /\ gpu = Null
  /\ content = [b \in Buffers |-> 0]
  /\ scanout = Null
  /\ flip = Null
  /\ event = Null
  /\ shown = 0
  /\ unsynced = FALSE

----------------------------------------------------------------------------
\* How a program gives up: mapped_texture_test goes to its clean-up, the
\* others return or exit at once.
GiveUp == IF program = "mapped_texture_test" THEN "cleanup" ELSE "exit"

\* drmModeSetCrtc; it may fail.
SetCrtc ==
  /\ pc = "set_crtc"
  /\ \/ scanout' = 0 /\ pc' = "draw"
     \/ UNCHANGED scanout /\ pc' = GiveUp
  /\ UNCHANGED <<program, loopVars, cleanupVars, gpuVars, flip, event, shown,
                 unsynced>>

\* One frame is submitted to the GPU; mapped_texture_test first draws the
\* texture, by the CPU, that the GPU will read.  That, and Vulkan, may fail.
Draw ==
  /\ pc = "draw"
  /\ \/ /\ gpu' = [buffer |-> fb_idx, frame |-> i]
        /\ waiting_for_flip' = TRUE
        /\ pc' = "finish"
     \/ /\ program # "null_platform_test"
        /\ pc' = GiveUp
        /\ UNCHANGED <<gpu, waiting_for_flip>>
  /\ UNCHANGED <<program, i, fb_idx, cleanupVars, content, screenVars, unsynced>>

\* Mutant of Finish: nobody waits for the GPU.
Finish_NoWait ==
  /\ pc = "finish"
  /\ UNCHANGED unsynced
  /\ pc' = "flip"
  /\ UNCHANGED <<program, loopVars, cleanupVars, gpuVars, screenVars>>

\* glFinish, vkQueueWaitIdle, or flush_egl, whose fence may not be created:
\* bs_egl_wait_sync then returns at once.  vkQueueWaitIdle may fail, and so
\* may the bs_egl_image_flush_external that follows glFinish.
Finish ==
  /\ pc = "finish"
  /\ \/ gpu = Null /\ pc' = "flip" /\ UNCHANGED unsynced
     \/ program = "mapped_texture_test" /\ unsynced' = TRUE /\ pc' = "flip"
     \/ program = "null_platform_test" /\ gpu = Null /\ pc' = GiveUp /\ UNCHANGED unsynced
     \/ program = "vk_glow" /\ pc' = GiveUp /\ UNCHANGED unsynced
  /\ UNCHANGED <<program, loopVars, cleanupVars, gpuVars, screenVars>>

\* drmModePageFlip; the kernel takes one flip at a time, and may refuse it
\* for reasons of its own.
PageFlip ==
  /\ pc = "flip"
  /\ \/ /\ flip = Null
        /\ flip' = [buffer |-> fb_idx, data |-> i]
        /\ pc' = "wait"
     \/ UNCHANGED flip /\ pc' = GiveUp
  /\ UNCHANGED <<program, loopVars, cleanupVars, gpuVars, scanout, event, shown,
                 unsynced>>

\* Mutant of NextFrame: the same buffer again.
NextFrame_SameBuffer ==
  IF i = Last
  THEN /\ pc' = IF program = "vk_glow" THEN "exit" ELSE "cleanup"
       /\ UNCHANGED <<i, fb_idx>>
  ELSE /\ pc' = "draw"
       /\ i' = i + 1
       /\ UNCHANGED fb_idx

\* The frame is done: take the other buffer for the next.
NextFrame ==
  IF i = Last
  THEN /\ pc' = IF program = "vk_glow" THEN "exit" ELSE "cleanup"
       /\ fb_idx' = 1 - fb_idx
       /\ UNCHANGED i
  ELSE /\ pc' = "draw"
       /\ fb_idx' = 1 - fb_idx
       /\ i' = i + 1

\* Mutant of HandleEvent: the flag is not cleared.
HandleEvent_KeepsFlag ==
  /\ pc = "wait" /\ waiting_for_flip
  /\ event # Null
  /\ event' = Null
  /\ UNCHANGED <<program, pc, loopVars, cleanupVars, gpuVars, scanout, flip,
                 shown, unsynced>>

\* select returns since the card is readable, and drmHandleEvent calls
\* page_flip_handler, which clears the flag named by the event.
HandleEvent ==
  /\ pc = "wait" /\ waiting_for_flip
  /\ event # Null
  /\ event' = Null
  /\ waiting_for_flip' = (event # i)
  /\ UNCHANGED <<program, pc, i, fb_idx, cleanupVars, gpuVars, scanout, flip,
                 shown, unsynced>>

\* select or drmHandleEvent fails, interrupted by a signal say, or the user
\* has typed something in front of mapped_texture_test.
StopWaiting ==
  /\ pc = "wait" /\ waiting_for_flip
  /\ pc' = GiveUp
  /\ UNCHANGED <<program, loopVars, cleanupVars, gpuVars, screenVars, unsynced>>

\* Mutant of Flipped: one look at the card is enough.
Flipped_Once ==
  /\ pc = "wait"
  /\ NextFrame
  /\ UNCHANGED <<program, waiting_for_flip, cleanupVars, gpuVars, screenVars,
                 unsynced>>

\* The while loop ends.
Flipped ==
  /\ pc = "wait" /\ ~waiting_for_flip
  /\ NextFrame
  /\ UNCHANGED <<program, waiting_for_flip, cleanupVars, gpuVars, screenVars,
                 unsynced>>

\* Mutant of Cleanup: the loop runs once more.
Cleanup_OneMore ==
  /\ pc = "cleanup" /\ rm_index <= NUM_BUFFERS
  /\ ids' = ids \ {rm_index}
  /\ rm_index' = rm_index + 1
  /\ UNCHANGED <<program, pc, loopVars, gpuVars, screenVars, unsynced>>

\* One turn of the clean-up loop.  drmModeRmFB turns off a CRTC that shows the
\* framebuffer and fails for one that is gone.  null_platform_test names it by
\* fb_idx, the loop variable of the frames.
Cleanup ==
  /\ pc = "cleanup" /\ rm_index < NUM_BUFFERS
  /\ LET removed == IF program = "null_platform_test" THEN fb_idx ELSE rm_index
     IN  /\ ids' = ids \ {removed}
         /\ scanout' = IF scanout = removed THEN Null ELSE scanout
         /\ flip' = IF flip # Null /\ flip.buffer = removed THEN Null ELSE flip
  /\ rm_index' = rm_index + 1
  /\ UNCHANGED <<program, pc, loopVars, gpuVars, event, shown, unsynced>>

CleanupDone ==
  /\ pc = "cleanup" /\ rm_index = NUM_BUFFERS
  /\ pc' = "exit"
  /\ UNCHANGED <<program, loopVars, cleanupVars, gpuVars, screenVars, unsynced>>

----------------------------------------------------------------------------
\* The GPU finishes a frame.
GpuDone ==
  /\ gpu # Null
  /\ content' = [content EXCEPT ![gpu.buffer] = gpu.frame]
  /\ gpu' = Null
  /\ UNCHANGED <<program, pc, loopVars, cleanupVars, screenVars, unsynced>>

\* The kernel flips and queues the event.
VBlank ==
  /\ flip # Null
  /\ scanout' = flip.buffer
  /\ shown' = content[flip.buffer]
  /\ event' = flip.data
  /\ flip' = Null
  /\ UNCHANGED <<program, pc, loopVars, cleanupVars, gpuVars, unsynced>>

Program ==
  \/ SetCrtc \/ Draw \/ Finish \/ PageFlip
  \/ HandleEvent \/ Flipped
  \/ Cleanup \/ CleanupDone

Next == Program \/ StopWaiting \/ GpuDone \/ VBlank

\* The program runs when it can, submitted work is finished, and a flip the
\* kernel accepted happens at a vertical blank.  Nobody promises that a signal
\* or a user ends a wait.
Spec == Init /\ [][Next]_vars /\ WF_vars(Program) /\ WF_vars(GpuDone) /\ WF_vars(VBlank)

----------------------------------------------------------------------------
TypeOK ==
  /\ program \in Programs
  /\ pc \in {"set_crtc", "draw", "finish", "flip", "wait", "cleanup", "exit"}
  /\ i \in Frames /\ fb_idx \in Buffers
  /\ waiting_for_flip \in BOOLEAN
  /\ ids \subseteq Buffers /\ rm_index \in 0 .. NUM_BUFFERS
  /\ gpu \in Job \cup {Null}
  /\ content \in [Buffers -> Frames]
  /\ scanout \in Buffers \cup {Null}
  /\ flip \in Flip \cup {Null}
  /\ event \in Frames \cup {Null}
  /\ shown \in Frames /\ unsynced \in BOOLEAN

Looping == pc \in {"draw", "finish", "flip", "wait"}

\* The GPU never draws into a buffer that is on the screen or about to be, and
\* the CPU never draws the texture of mapped_texture_test while the GPU reads
\* it, as long as the fences of flush_egl (mapped_texture_test.c:231) exist.
NoTearing ==
  ~unsynced =>
    /\ gpu # Null => gpu.buffer # scanout /\ (flip # Null => gpu.buffer # flip.buffer)
    /\ pc = "draw" => gpu = Null

\* The handler writes through a pointer to a variable of one turn of the loop
\* (null_platform_test.c:232, 268): while the loop runs, no flip and no event
\* is under way but the one of the turn that waits for it, so no flip is
\* refused because of an earlier one and no event finds its flag gone.
FlagInScope ==
  Looping =>
    /\ flip # Null => pc = "wait" /\ flip.data = i /\ waiting_for_flip
    /\ event # Null => pc = "wait" /\ event = i /\ waiting_for_flip
    /\ flip = Null \/ event = Null

\* Frames reach the screen finished, in order, and none is left out.
FramesInOrder == [][shown' # shown /\ ~unsynced' => shown' = shown + 1]_vars

\* The frame loops end: no wait of theirs is for something that cannot come.
Ends == <>(pc = "exit")
=============================================================================
