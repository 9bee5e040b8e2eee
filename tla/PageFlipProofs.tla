--------------------------- MODULE PageFlipProofs ---------------------------
(***************************************************************************)
(* For a run of any length: the waits of the three frame loops keep the    *)
(* program, the GPU and the display apart, no event finds its flag out of  *)
(* scope, and every step is one towards the end.                           *)
(***************************************************************************)
EXTENDS PageFlip, TLAPS

Quiet == flip = Null /\ event = Null
Drawing == [buffer |-> fb_idx, frame |-> i]
Requested == [buffer |-> fb_idx, data |-> i]

\* A turn of the loop that waits: its flip is still to come, its event is still
\* to be read, or has been.
Waiting ==
  \/ /\ flip = Requested /\ event = Null
     /\ waiting_for_flip /\ scanout = 1 - fb_idx
  \/ /\ flip = Null /\ event = i
     /\ waiting_for_flip /\ scanout = fb_idx
  \/ /\ Quiet
     /\ ~waiting_for_flip /\ scanout = fb_idx

\* Before and while a frame is drawn the other buffer is on the screen and the
\* kernel has nothing to do.
Places ==
  /\ pc = "set_crtc" => Quiet /\ scanout = Null /\ fb_idx = 1
  /\ pc \in {"draw", "finish", "flip"} => Quiet /\ scanout = 1 - fb_idx
  /\ pc \in {"finish", "flip"} => waiting_for_flip
  /\ pc = "wait" => Waiting

\* The GPU has work only between Draw and Finish, or after the program gave up
\* there.
GpuWorks ==
  /\ pc \in {"set_crtc", "draw", "flip", "wait"} => gpu = Null
  /\ pc = "finish" => gpu \in {Null, Drawing}
  /\ pc \in {"cleanup", "exit"} /\ gpu # Null =>
       flip = Null /\ gpu.buffer # scanout

\* The frame on the screen is the one before the loop's, and the one on its way
\* there is finished.
Contents ==
  /\ pc \in {"set_crtc", "draw", "finish", "flip"} => shown = i - 1
  /\ pc = "finish" /\ gpu = Null => content[fb_idx] = i
  /\ pc = "flip" => content[fb_idx] = i
  /\ pc = "wait" => shown = IF flip = Null THEN i ELSE i - 1
  /\ flip # Null => content[flip.buffer] = shown + 1

\* The inductive invariant.
Inv == TypeOK /\ Places /\ (~unsynced => GpuWorks /\ Contents)

----------------------------------------------------------------------------
LEMMA BuffersAre == Buffers = {0, 1}
BY DEF Buffers, NUM_BUFFERS

\* Initially nothing is drawn, shown or awaited.
LEMMA InitInv == Init => Inv
<1> SUFFICES ASSUME Init PROVE Inv
  OBVIOUS
<1>1. TypeOK
  <2>1. 0 \in Frames /\ 1 \in Frames
    BY FlipAssumption DEF Frames
  <2>2. content \in [Buffers -> Frames]
    BY <2>1 DEF Init
  <2>3. fb_idx \in Buffers /\ rm_index \in 0 .. NUM_BUFFERS
    BY BuffersAre DEF Init, NUM_BUFFERS
  <2> QED
    BY <2>1, <2>2, <2>3, Zenon DEF Init, TypeOK
<1>2. Places /\ GpuWorks /\ Contents
  BY DEF Init, Places, Quiet, GpuWorks, Contents
<1> QED
  BY <1>1, <1>2 DEF Inv

\* The steps of the program outside the wait.
LEMMA DrawingSteps ==
  ASSUME Inv, SetCrtc \/ Draw \/ Finish \/ PageFlip
  PROVE  Inv'
<1> USE FlipAssumption, BuffersAre
<1>1. CASE SetCrtc
  <2>1. TypeOK'
    BY <1>1 DEF Inv, TypeOK, SetCrtc, GiveUp, loopVars, cleanupVars, gpuVars
  <2>2. Places'
    BY <1>1 DEF Inv, TypeOK, Places, Quiet, SetCrtc, GiveUp, loopVars, cleanupVars, gpuVars
  <2>3. (~unsynced => GpuWorks /\ Contents)'
    BY <1>1 DEF Inv, TypeOK, Places, Quiet, GpuWorks, Contents, SetCrtc, GiveUp,
       loopVars, cleanupVars, gpuVars
  <2> QED
    BY <2>1, <2>2, <2>3 DEF Inv
<1>2. CASE Draw
  <2>1. TypeOK'
    <3>1. Drawing \in Job
      BY DEF Inv, TypeOK, Drawing, Job
    <3> QED
      BY <1>2, <3>1 DEF Inv, TypeOK, Drawing, Draw, GiveUp, cleanupVars, screenVars
  <2>2. Places'
    BY <1>2 DEF Inv, TypeOK, Places, Quiet, Draw, GiveUp, cleanupVars, screenVars
  <2>3. (~unsynced => GpuWorks /\ Contents)'
    BY <1>2, <2>1 DEF Inv, TypeOK, Job, Drawing, Places, Quiet, GpuWorks, Contents, Draw,
       GiveUp, cleanupVars, screenVars
  <2> QED
    BY <2>1, <2>2, <2>3 DEF Inv
<1>3. CASE Finish
  <2>1. TypeOK'
    BY <1>3 DEF Inv, TypeOK, Finish, GiveUp, loopVars, cleanupVars, gpuVars, screenVars
  <2>2. Places'
    BY <1>3 DEF Inv, TypeOK, Places, Quiet, Finish, GiveUp, loopVars, cleanupVars,
       gpuVars, screenVars
  <2>3. (~unsynced => GpuWorks /\ Contents)'
    BY <1>3 DEF Inv, TypeOK, Job, Drawing, Places, Quiet, GpuWorks, Contents, Finish,
       GiveUp, loopVars, cleanupVars, gpuVars, screenVars
  <2> QED
    BY <2>1, <2>2, <2>3 DEF Inv
<1>4. CASE PageFlip
  <2>1. TypeOK'
    BY <1>4 DEF Inv, TypeOK, PageFlip, GiveUp, Flip, loopVars, cleanupVars, gpuVars
  <2>2. Places'
    BY <1>4 DEF Inv, TypeOK, Places, Quiet, Waiting, Requested, PageFlip, GiveUp,
       loopVars, cleanupVars, gpuVars
  <2>3. (~unsynced => GpuWorks /\ Contents)'
    BY <1>4 DEF Inv, TypeOK, Frames, Flip, Places, Quiet, GpuWorks, Contents, PageFlip, GiveUp,
       loopVars, cleanupVars, gpuVars
  <2> QED
    BY <2>1, <2>2, <2>3 DEF Inv
<1> QED
  BY <1>1, <1>2, <1>3, <1>4

\* The steps of the wait: the event that is read is the turn's own.
LEMMA WaitingSteps ==
  ASSUME Inv, HandleEvent \/ StopWaiting \/ Flipped
  PROVE  Inv'
<1> USE FlipAssumption, BuffersAre
<1>1. CASE HandleEvent
  <2>1. TypeOK'
    BY <1>1 DEF Inv, TypeOK, HandleEvent, cleanupVars, gpuVars
  <2>2. Places'
    BY <1>1 DEF Inv, TypeOK, Places, Quiet, Waiting, Requested, HandleEvent,
       cleanupVars, gpuVars
  <2>3. (~unsynced => GpuWorks /\ Contents)'
    BY <1>1 DEF Inv, GpuWorks, Contents, HandleEvent, cleanupVars, gpuVars
  <2> QED
    BY <2>1, <2>2, <2>3 DEF Inv
<1>2. CASE StopWaiting
  <2>1. TypeOK'
    BY <1>2 DEF Inv, TypeOK, StopWaiting, GiveUp, loopVars, cleanupVars, gpuVars, screenVars
  <2>2. Places'
    BY <1>2 DEF Inv, Places, StopWaiting, GiveUp, loopVars, cleanupVars, gpuVars, screenVars
  <2>3. (~unsynced => GpuWorks /\ Contents)'
    BY <1>2 DEF Inv, GpuWorks, Contents, StopWaiting, GiveUp, loopVars, cleanupVars,
       gpuVars, screenVars
  <2> QED
    BY <2>1, <2>2, <2>3 DEF Inv
<1>3. CASE Flipped
  <2>1. TypeOK'
    BY <1>3 DEF Inv, TypeOK, Flipped, NextFrame, Frames, cleanupVars, gpuVars, screenVars
  <2>2. Places'
    BY <1>3 DEF Inv, TypeOK, Places, Quiet, Waiting, Flipped, NextFrame, cleanupVars,
       gpuVars, screenVars
  <2>3. (~unsynced => GpuWorks /\ Contents)'
    BY <1>3 DEF Inv, TypeOK, Frames, Places, Waiting, Quiet, GpuWorks, Contents, Flipped,
       NextFrame, cleanupVars, gpuVars, screenVars
  <2> QED
    BY <2>1, <2>2, <2>3 DEF Inv
<1> QED
  BY <1>1, <1>2, <1>3

\* The clean-up; a framebuffer removed leaves the screen and its flip goes.
LEMMA CleanupSteps ==
  ASSUME Inv, Cleanup \/ CleanupDone
  PROVE  Inv'
<1> USE FlipAssumption, BuffersAre
<1>1. CASE Cleanup
  <2>1. TypeOK'
    BY <1>1 DEF Inv, TypeOK, Cleanup, NUM_BUFFERS, loopVars, gpuVars
  <2>2. Places'
    BY <1>1 DEF Inv, Places, Cleanup, loopVars, gpuVars
  <2>3. (~unsynced => GpuWorks /\ Contents)'
    BY <1>1 DEF Inv, TypeOK, Job, GpuWorks, Contents, Cleanup, loopVars, gpuVars
  <2> QED
    BY <2>1, <2>2, <2>3 DEF Inv
<1>2. CASE CleanupDone
  <2>1. TypeOK'
    BY <1>2 DEF Inv, TypeOK, CleanupDone, loopVars, cleanupVars, gpuVars, screenVars
  <2>2. Places' /\ (~unsynced => GpuWorks /\ Contents)'
    BY <1>2 DEF Inv, Places, GpuWorks, Contents, CleanupDone, loopVars, cleanupVars,
       gpuVars, screenVars
  <2> QED
    BY <2>1, <2>2 DEF Inv
<1> QED
  BY <1>1, <1>2

\* The GPU and the display, which may act at any time.
LEMMA OtherSteps ==
  ASSUME Inv, GpuDone \/ VBlank
  PROVE  Inv'
<1> USE FlipAssumption, BuffersAre
<1>1. CASE GpuDone
  <2>1. TypeOK'
    BY <1>1 DEF Inv, TypeOK, Job, GpuDone, loopVars, cleanupVars, screenVars
  <2>2. Places'
    BY <1>1 DEF Inv, Places, Quiet, Waiting, Requested, GpuDone, loopVars, cleanupVars,
       screenVars
  <2>3. (~unsynced => GpuWorks /\ Contents)'
    <3> SUFFICES ASSUME ~unsynced
                 PROVE  (GpuWorks /\ Contents)'
      BY <1>1 DEF GpuDone
    <3>1. pc = "finish" => gpu = Drawing
      BY <1>1 DEF Inv, GpuWorks, GpuDone
    <3>2. pc = "finish" => content'[fb_idx] = i
      BY <1>1, <3>1 DEF Inv, TypeOK, Drawing, GpuDone
    <3>3. flip # Null => content' = content
      BY <1>1 DEF Inv, TypeOK, Places, Quiet, GpuWorks, GpuDone
    <3>4. GpuWorks'
      BY <1>1 DEF Inv, GpuWorks, GpuDone, screenVars
    <3>5. Contents'
      BY <1>1, <3>2, <3>3
      DEF Inv, TypeOK, GpuWorks, Contents, GpuDone, loopVars, screenVars
    <3> QED
      BY <3>4, <3>5
  <2> QED
    BY <2>1, <2>2, <2>3 DEF Inv
<1>2. CASE VBlank
  <2>1. TypeOK'
    BY <1>2 DEF Inv, TypeOK, Flip, VBlank, loopVars, cleanupVars, gpuVars
  <2>2. Places'
    BY <1>2 DEF Inv, TypeOK, Flip, Places, Quiet, Waiting, Requested, VBlank, loopVars,
       cleanupVars, gpuVars
  <2>3. (~unsynced => GpuWorks /\ Contents)'
    <3> SUFFICES ASSUME ~unsynced
                 PROVE  (GpuWorks /\ Contents)'
      BY <1>2 DEF VBlank
    <3>1. pc \in {"wait", "cleanup", "exit"} /\ gpu = Null
      BY <1>2 DEF Inv, TypeOK, Places, Quiet, GpuWorks, VBlank
    <3>2. shown' = shown + 1
      BY <1>2 DEF Inv, Contents, VBlank
    <3>3. pc = "wait" => shown' = i
      BY <1>2, <3>2 DEF Inv, TypeOK, Frames, Contents, VBlank
    <3>4. GpuWorks'
      BY <1>2, <3>1 DEF GpuWorks, VBlank, gpuVars
    <3>5. Contents'
      BY <1>2, <3>1, <3>3 DEF Contents, VBlank, loopVars
    <3> QED
      BY <3>4, <3>5
  <2> QED
    BY <2>1, <2>2, <2>3 DEF Inv
<1> QED
  BY <1>1, <1>2

\* A step that changes no variable.
LEMMA Stutters == ASSUME Inv, UNCHANGED vars PROVE Inv'
BY DEF Inv, TypeOK, Places, Quiet, Waiting, Requested, GpuWorks, Drawing, Contents,
   Job, Flip, vars, loopVars, cleanupVars, gpuVars, screenVars

LEMMA NextInv == Inv /\ [Next]_vars => Inv'
BY DrawingSteps, WaitingSteps, CleanupSteps, OtherSteps, Stutters DEF Next, Program

LEMMA AlwaysInv == Spec => []Inv
BY InitInv, NextInv, PTL DEF Spec

----------------------------------------------------------------------------
\* The loops of the three programs keep their types for any number of frames.
THEOREM PageFlipTypeCorrect == Spec => []TypeOK
<1>1. Inv => TypeOK
  BY DEF Inv
<1> QED
  BY <1>1, AlwaysInv, PTL

\* The GPU never draws into a buffer on the screen or on its way there, and no
\* texture is drawn while the GPU reads it, with any number of frames.
THEOREM NothingTears == Spec => []NoTearing
<1>1. ASSUME Inv PROVE NoTearing
  <2> SUFFICES ASSUME ~unsynced, gpu # Null
               PROVE  /\ pc # "draw"
                      /\ gpu.buffer # scanout
                      /\ flip # Null => gpu.buffer # flip.buffer
    BY DEF NoTearing
  <2>1. pc \in {"finish", "cleanup", "exit"}
    BY <1>1 DEF Inv, TypeOK, GpuWorks
  <2>2. flip = Null /\ gpu.buffer # scanout
    BY <1>1, <2>1, BuffersAre DEF Inv, TypeOK, GpuWorks, Places, Quiet, Drawing
  <2> QED
    BY <2>1, <2>2
<1> QED
  BY <1>1, AlwaysInv, PTL

\* No event finds the flag it is to clear out of scope, and no flip is asked
\* for while another is under way, whether there are fences or not.
THEOREM FlagAlwaysInScope == Spec => []FlagInScope
<1>1. ASSUME Inv PROVE FlagInScope
  BY <1>1, FlipAssumption
  DEF Inv, FlagInScope, Looping, Places, Quiet, Waiting, Requested
<1> QED
  BY <1>1, AlwaysInv, PTL

\* Frames reach the screen finished and in order, none left out, in a run of any
\* length.
THEOREM FramesStayInOrder == Spec => FramesInOrder
<1>1. ASSUME Inv, [Next]_vars
      PROVE  [shown' # shown /\ ~unsynced' => shown' = shown + 1]_vars
  <2> SUFFICES ASSUME Next, shown' # shown, ~unsynced'
               PROVE  shown' = shown + 1
    BY <1>1 DEF vars, screenVars
  <2>1. VBlank
    BY DEF Next, Program, SetCrtc, Draw, Finish, PageFlip, HandleEvent, Flipped, Cleanup,
       CleanupDone, StopWaiting, GpuDone, screenVars
  <2> QED
    BY <1>1, <2>1 DEF Inv, Contents, VBlank
<1> QED
  BY <1>1, AlwaysInv, PTL DEF Spec, FramesInOrder

----------------------------------------------------------------------------
(***************************************************************************)
(* Why the loops end: what is left of a run gets less with every step that *)
(* anybody takes, and a program that waits for its flip waits for one that *)
(* is under way.                                                           *)
(***************************************************************************)

\* What is left of a turn of the loop, of the turns after it, of the clean-up,
\* and of the work of the GPU and the display.
TurnLeft ==
  CASE pc = "set_crtc" -> 11
    [] pc = "draw" -> 10
    [] pc = "finish" -> 8
    [] pc = "flip" -> 7
    [] pc = "wait" -> 4
    [] pc = "cleanup" -> NUM_BUFFERS - rm_index + 1
    [] pc = "exit" -> 0
TurnsLeft == IF pc \in {"cleanup", "exit"} THEN 0 ELSE 7 * (Last - i)
GpuLeft == IF gpu = Null THEN 0 ELSE 1
DisplayLeft == (IF flip = Null THEN 0 ELSE 2) + (IF event = Null THEN 0 ELSE 1)
Left == TurnLeft + TurnsLeft + GpuLeft + DisplayLeft

\* A program that waits for its flip has a flip or an event to wait for.
WaitsForSomething ==
  pc = "wait" /\ waiting_for_flip => flip # Null \/ event # Null

LEMMA LeftIsNatural == Inv => Left \in Nat
<1> SUFFICES ASSUME Inv PROVE Left \in Nat
  OBVIOUS
<1>1. TurnLeft \in Nat
  BY DEF Inv, TypeOK, TurnLeft, NUM_BUFFERS
<1>2. TurnsLeft \in Nat
  BY FlipAssumption DEF Inv, TypeOK, TurnsLeft, Frames
<1>3. GpuLeft \in Nat /\ DisplayLeft \in Nat
  BY DEF GpuLeft, DisplayLeft
<1> QED
  BY <1>1, <1>2, <1>3 DEF Left

\* Each step of the program, of the GPU and of the display.
LEMMA LeftGetsLess ==
  ASSUME Inv, Next
  PROVE  Left' < Left
<1> USE FlipAssumption DEF Left, TurnLeft, TurnsLeft, GpuLeft, DisplayLeft, Inv, TypeOK, Frames,
      NUM_BUFFERS
<1>1. CASE SetCrtc
  BY <1>1 DEF SetCrtc, GiveUp, loopVars, cleanupVars, gpuVars
<1>2. CASE Draw
  <2>1. gpu' = gpu \/ gpu' # Null
    BY <1>2, BuffersAre DEF Draw, Job
  <2> QED
    BY <1>2, <2>1 DEF Draw, GiveUp, cleanupVars, screenVars
<1>3. CASE Finish
  BY <1>3 DEF Finish, GiveUp, loopVars, cleanupVars, gpuVars, screenVars
<1>4. CASE PageFlip
  <2>1. flip' = flip \/ flip' # Null
    BY <1>4 DEF PageFlip, Flip
  <2> QED
    BY <1>4, <2>1 DEF PageFlip, GiveUp, loopVars, cleanupVars, gpuVars
<1>5. CASE HandleEvent
  BY <1>5 DEF HandleEvent, cleanupVars, gpuVars
<1>6. CASE Flipped
  <2>1. GpuLeft' = GpuLeft /\ DisplayLeft' = DisplayLeft
    BY <1>6 DEF Flipped, gpuVars, screenVars
  <2>2. GpuLeft \in Nat /\ DisplayLeft \in Nat
    OBVIOUS
  <2>3. TurnLeft = 4 /\ TurnsLeft = 7 * (Last - i) /\ TurnsLeft \in Nat
    BY <1>6 DEF Flipped
  <2>4. CASE i = Last
    <3>1. TurnLeft' \in 0 .. 3 /\ TurnsLeft' = 0
      BY <1>6, <2>4 DEF Flipped, NextFrame, cleanupVars
    <3> HIDE DEF TurnLeft, TurnsLeft, GpuLeft, DisplayLeft, Inv, TypeOK
    <3> QED
      BY <2>1, <2>2, <2>3, <3>1
  <2>5. CASE i # Last
    <3>1. TurnLeft' = 10 /\ TurnsLeft' = TurnsLeft - 7
      BY <1>6, <2>3, <2>5 DEF Flipped, NextFrame
    <3> HIDE DEF TurnLeft, TurnsLeft, GpuLeft, DisplayLeft
    <3> QED
      BY <2>1, <2>2, <2>3, <3>1
  <2> QED
    BY <2>4, <2>5
<1>7. CASE Cleanup
  BY <1>7 DEF Cleanup, loopVars, gpuVars
<1>8. CASE CleanupDone
  BY <1>8 DEF CleanupDone, loopVars, cleanupVars, gpuVars, screenVars
<1>9. CASE StopWaiting
  BY <1>9 DEF StopWaiting, GiveUp, loopVars, cleanupVars, gpuVars, screenVars
<1>10. CASE GpuDone
  BY <1>10 DEF GpuDone, loopVars, cleanupVars, screenVars
<1>11. CASE VBlank
  BY <1>11 DEF VBlank, Flip, loopVars, cleanupVars, gpuVars
<1> QED
  BY <1>1, <1>2, <1>3, <1>4, <1>5, <1>6, <1>7, <1>8, <1>9, <1>10, <1>11 DEF Next, Program

\* However long the run, every step of the program, the GPU and the display
\* brings the end of it nearer, whoever of them is quicker: no wait of the
\* loops (null_platform_test.c:274, mapped_texture_test.c:381, vk_glow.c:489)
\* is part of a circle.
THEOREM EveryStepIsTowardsTheEnd == Spec => [][Left' \in Nat /\ Left' < Left]_vars
<1>1. Inv => Left \in Nat
  BY LeftIsNatural
<1>2. ASSUME Inv, [Next]_vars, (Left \in Nat)'
      PROVE  [Left' \in Nat /\ Left' < Left]_vars
  BY <1>2, LeftGetsLess
<1> QED
  BY <1>1, <1>2, AlwaysInv, PTL DEF Spec

\* No program waits for a flip that is neither to come nor to be read of.
THEOREM NoWaitIsInVain == Spec => []WaitsForSomething
<1>1. ASSUME Inv PROVE WaitsForSomething
  BY <1>1, FlipAssumption
  DEF Inv, TypeOK, Frames, WaitsForSomething, Places, Waiting, Quiet, Requested
<1> QED
  BY <1>1, AlwaysInv, PTL
=============================================================================
