---------------------------- MODULE TestScripts ----------------------------
(***************************************************************************)
(* The programs of the repository that run from top to bottom, as the      *)
(* sequences of the calls they make, for module TestPrograms to carry out. *)
(* A step that may fail has with it all that the program does when it      *)
(* does: the steps after the label it jumps to.  Loops over buffers and    *)
(* CRTCs are unrolled; a loop over frames is cut to one frame, or to one   *)
(* of each kind (module PageFlip has the frames).  Options have their      *)
(* defaults, except the mapper's, which may be the dumb one.               *)
(***************************************************************************)
EXTENDS Integers, SequencesExt

\* The steps.  An object is named by its kind and the index of the variable
\* that keeps it.
\*   Take   a call that returns a new object; else: what is done if it fails
\*   Make   the same, for a call that cannot fail
\*   Seek   the same, when the program goes on without the object
\*   Give   an object is given back
\*   Call   a call that may fail and leaves no object
\*   Try    the same, when the program goes on whether it fails or not
\*   Run    a step with an effect of its own, named by its kind
Step(do, kind, i, else) ==
  << [do |-> do, of |-> <<kind, i>>, else |-> else] >>
Take(kind, i, else) == Step("take", kind, i, else)
Make(kind, i) == Step("make", kind, i, << >>)
Seek(kind, i) == Step("seek", kind, i, << >>)
Give(kind, i) == Step("give", kind, i, << >>)
Call(name, i, else) == Step("call", name, i, else)
Try(name, i) == Step("try", name, i, << >>)
Run(kind, i) == Step("run", kind, i, << >>)

\* A failed assertion, or a read through NULL or MAP_FAILED.
Crash == Run("crash", 0)

\* main returns 1, and the values the other programs return.
Return1 == << >>
Return(value) == Run("return", value)

Buffers == 0 .. 1
Twice(steps) == steps[0] \o steps[1]

----------------------------------------------------------------------------
\* bsdrm/src/gl.c.

\* Mutant: the compile status is not looked at.
shader_create_Unchecked(s, else) ==
  Take("shader", s, else) \o Try("compile", s)

shader_create(s, else) ==
  Take("shader", s, else) \o Call("compile", s, Give("shader", s) \o else)

program_create(else) ==
  LET DeleteProgram == Give("program", 0) \o else IN
  Take("program", 0, else)
  \o shader_create(0, DeleteProgram)
  \o shader_create(1, Give("shader", 0) \o DeleteProgram)
  \o Give("shader", 0) \o Give("shader", 1)
  \o Call("link", 0, DeleteProgram)

----------------------------------------------------------------------------
\* The beginning of most programs.  NULL for a connector is not expected.
open_display ==
  Take("card", 0, Return1) \o Take("gbm", 0, Return1)
  \o Call("pipe", 0, Return1) \o Take("connector", 0, Crash)

\* Two buffer objects with their framebuffers.
framebuffers ==
  Twice([k \in Buffers |-> Take("bo", k, Return1) \o Take("id", k, Return1)])

\* null_platform_test.  After an odd number of frames fb_idx is 0.
null_platform_test ==
  open_display
  \o Run("egl_new", 0) \o Call("egl_setup", 0, Return1)
  \o Twice([k \in Buffers |->
       Take("bo", k, Return1) \o Take("id", k, Return1)
       \o Take("image", k, Return1) \o Take("egl_fb", k, Return1)])
  \o Call("set_crtc", 0, Return1)
  \o program_create(Return1)
  \o Call("flush", 1, Return1) \o Call("flip", 1, Return1)
  \o Call("wait", 1, Return1)
  \o Twice([k \in Buffers |->
       Give("egl_fb", k) \o Give("image", k) \o Give("id", 0) \o Give("bo", k)])
  \o Run("egl_destroy", 0) \o Give("gbm", 0) \o Give("card", 0)
  \o Return(0)

----------------------------------------------------------------------------
\* mapped_texture_test, from its last label to its first.  Index 2 is the
\* offscreen buffer.

destroy_display_fd == Give("card", 0)
destroy_mapper == Give("mapper", 0) \o destroy_display_fd
destroy_gbm_device == Give("gbm", 0) \o destroy_mapper

\* Mutant: the display goes first.
delete_framebuffers_EglFirst ==
  Run("egl_destroy", 0)
  \o Twice([k \in Buffers |->
       Give("egl_fb", k) \o Give("image", k) \o Give("id", k) \o Give("bo", k)])
  \o destroy_gbm_device

\* Mutant: the kernel's framebuffers are forgotten.
delete_framebuffers_NoIds ==
  Twice([k \in Buffers |->
    Give("egl_fb", k) \o Give("image", k) \o Give("bo", k)])
  \o Run("egl_destroy", 0)
  \o destroy_gbm_device

delete_framebuffers ==
  Twice([k \in Buffers |->
    Give("egl_fb", k) \o Give("image", k) \o Give("id", k) \o Give("bo", k)])
  \o Run("egl_destroy", 0)
  \o destroy_gbm_device

destroy_offscreen_buffer ==
  Give("tex", 2) \o Give("image", 2) \o Give("bo", 2) \o delete_framebuffers
destroy_gl_resources ==
  Give("program", 0) \o Give("vbo", 0) \o destroy_offscreen_buffer

\* create_framebuffer, whose labels are in the order of creation.
create_framebuffer(k) ==
  LET delete_gbm_bo == Give("bo", k) \o delete_framebuffers
      delete_fb == Give("id", k) \o delete_gbm_bo
      delete_gl_image == Give("image", k) \o delete_fb
      delete_gl_fb == Give("egl_fb", k) \o delete_gl_image
  IN  Take("bo", k, delete_gl_fb)
      \o Take("id", k, delete_gl_image)
      \o Take("image", k, delete_fb)
      \o Take("egl_fb", k, delete_gbm_bo)

add_offscreen_texture ==
  LET destroy_offscreen_bo == Give("bo", 2) \o destroy_offscreen_buffer
      destroy_offscreen_image ==
        Give("tex", 2) \o Give("image", 2) \o destroy_offscreen_bo
  IN  Take("bo", 2, destroy_offscreen_buffer)
      \o Take("image", 2, destroy_offscreen_bo)
      \o Make("tex", 2)
      \o Call("target_texture", 2, destroy_offscreen_image)

\* ret is what drmModeSetCrtc and drmModePageFlip return; the ret of select is
\* another variable.
mapped_texture_test ==
  Take("card", 0, Return1)
  \o Take("mapper", 0, Crash)
  \o Take("gbm", 0, destroy_mapper)
  \o Call("pipe", 0, destroy_gbm_device)
  \o Take("connector", 0, Crash)
  \o Run("egl_new", 0) \o Call("egl_setup", 0, destroy_gbm_device)
  \o create_framebuffer(0) \o create_framebuffer(1)
  \o add_offscreen_texture
  \o program_create(destroy_gl_resources) \o Make("vbo", 0)
  \o Call("set_crtc", 0, destroy_gl_resources) \o Return(0)
  \o Call("draw", 2, destroy_gl_resources)
  \o Try("flush", 1)
  \o Call("flip", 1, Return(1) \o destroy_gl_resources)
  \o Call("wait", 1, destroy_gl_resources)
  \o destroy_gl_resources

----------------------------------------------------------------------------
\* linear_bo_test: four cases, of which the last two have a format of their
\* own for the framebuffer, and every second is drawn without GL.

FbFormatGiven(k) == k \in {2, 3}
UsageLinear(k) == k \in {1, 3}

test_case_draw_gl(k) ==
  LET image_destroy == Give("image", k)
      fb_destroy == Give("egl_fb", k) \o image_destroy
      delete_program == Give("program", 0) \o fb_destroy
  IN  Take("image", k, Return1)
      \o Take("egl_fb", k, Give("image", k) \o image_destroy)
      \o program_create(fb_destroy)
      \o Call("uniform", 0, delete_program)
      \o delete_program

\* The descriptor of the buffer object is not used.
test_case_draw_dma_buf(k) ==
  Take("bo_fd", k, Return1) \o Take("map", k, Return1) \o Give("map", k)

\* A case, before the rest of the program: one without a buffer is left out.
test_case(k, rest) ==
  Take("bo", k, Run("case_failed", k) \o rest)
  \o Run("builder_new", k) \o Run("gbm_bo", k)
  \o (IF FbFormatGiven(k) THEN Run("fb_format", k) ELSE << >>)
  \o Run("create_fb", k)
  \o Take("created_fb", k, Run("builder_destroy", k))
  \o Run("builder_destroy", k)
  \o (IF UsageLinear(k) THEN test_case_draw_dma_buf(k) ELSE test_case_draw_gl(k))
  \o Give("bo", k)
  \o rest

linear_bo_test ==
  LET Shown(k) == Call("set_crtc_if_made", k, Return1)
      finish == Give("mapper", 0)
                \o Shown(0) \o Shown(1) \o Shown(2) \o Shown(3)
                \o Give("created_fb", 0) \o Give("created_fb", 1)
                \o Give("created_fb", 2) \o Give("created_fb", 3)
                \o Run("egl_destroy", 0)
                \o Run("return_all_pass", 0)
  IN  open_display
      \o Run("egl_new", 0) \o Call("egl_setup", 0, Return1)
      \o Make("mapper", 0)
      \o test_case(0, test_case(1, test_case(2, test_case(3, finish))))

----------------------------------------------------------------------------
\* gamma_test, for a machine of two CRTCs.  A CRTC for which no pipe can be
\* made, without a gamma table or without a mode is passed over.
gamma_case(c, rest) ==
  Give("connector", 0)
  \o Call("pipe", c, rest) \o Make("connector", 0)
  \o Call("get_crtc", c, Return1)
  \o Call("gamma_size", c, Run("read_freed", c) \o rest)
  \o Call("mode", c, rest)
  \o Take("bo", c, Return1) \o Take("id", c, Return1)
  \o Take("map", c, Return1) \o Give("map", c)
  \o Call("set_crtc", c, Return1)
  \o Call("set_gamma", c, Return1) \o Call("reset_gamma", c, Return1)
  \o Call("disable_crtc", c, Return1)
  \o Give("id", c) \o Give("bo", c) \o Run("case_passed", c)
  \o rest

gamma_test ==
  LET finish == Give("mapper", 0) \o Give("connector", 0)
                \o Give("resources", 0) \o Give("plumber", 0)
                \o Run("return_any_pass", 0)
  IN  Make("plumber", 0) \o Take("card", 0, Return1) \o Make("connector", 0)
      \o Take("resources", 0, Return1) \o Take("gbm", 0, Return1)
      \o Make("mapper", 0)
      \o gamma_case(0, gamma_case(1, finish))

----------------------------------------------------------------------------
\* mmap_test, with a frame for each order of the steps.  A mapping that fails
\* is only reported, and leaves map_data without a value.
draw_sequence(s) ==
  LET k == s % 2
      MMAP == Seek("map", k)
      FAULT == Run("access", k)
      FLIP == Try("flip", s)
      DRAW == Run("access_range", k)
  IN  CASE s = 1 -> MMAP \o FAULT \o FLIP \o DRAW \o Give("map", k)
        [] s = 2 -> MMAP \o FLIP \o DRAW \o Give("map", k)
        [] s = 3 -> MMAP \o DRAW \o FLIP \o Give("map", k)
        [] s = 4 -> FLIP \o MMAP \o DRAW \o Give("map", k)

mmap_test ==
  Take("card", 0, Return1) \o Take("gbm", 0, Return1)
  \o Take("mapper", 0, Crash)
  \o Call("pipe", 0, Return1) \o Take("connector", 0, Crash)
  \o framebuffers
  \o Call("set_crtc", 0, Return1)
  \o draw_sequence(1) \o draw_sequence(2)
  \o draw_sequence(3) \o draw_sequence(4)
  \o Return(0)

----------------------------------------------------------------------------
\* drm_cursor_test.
drm_cursor_test ==
  open_display
  \o Call("move_cursor", 0, Return1)
  \o Take("bo", 0, Return1) \o Make("mapper", 0)
  \o Take("map", 0, Return1) \o Give("map", 0)
  \o Take("id", 0, Return1) \o Call("set_crtc", 0, Return1)
  \o Take("bo", 1, Return1) \o Call("draw", 1, Return1)
  \o Call("set_cursor", 1, Return1) \o Call("move_cursor", 1, Return1)
  \o Give("mapper", 0) \o Give("id", 0) \o Give("bo", 0) \o Give("bo", 1)
  \o Give("gbm", 0) \o Give("card", 0)
  \o Return(0)

----------------------------------------------------------------------------
\* swrast_test.  The link status is asked of glGetShaderiv, which does not
\* know the program: the compile status is read again.
swrast_test ==
  LET terminate_display == Give("display", 0)
      destroy_context == Give("context", 0) \o terminate_display
      delete_gl_buffers == Give("gl_fb", 0) \o Give("gl_rb", 0)
                           \o destroy_context
      draw(done) ==
        Take("shader", 0, done) \o Call("compile", 0, done)
        \o Take("shader", 1, done) \o Call("compile", 1, done)
        \o Take("program", 0, done) \o Try("link", 0)
        \o Give("program", 0)
  IN  Return(0)
      \o Call("get_display", 0, Return(1))
      \o Take("display", 0, Return(1))
      \o Call("choose_config", 0, terminate_display)
      \o Call("choose_config", 1, terminate_display)
      \o Call("bind_api", 0, Return(1) \o terminate_display)
      \o Take("context", 0, Return(1) \o terminate_display)
      \o Call("make_current", 0, Return(1) \o destroy_context)
      \o Make("gl_fb", 0) \o Make("gl_rb", 0)
      \o Call("complete", 0, Return(1) \o delete_gl_buffers)
      \o draw(delete_gl_buffers)
      \o delete_gl_buffers

----------------------------------------------------------------------------
\* vgem_test.  Index 0 is the vgem card, 1 the one of the foreign buffer.  A
\* buffer smaller than asked for fails an assertion; munmap, asserted too, does
\* not fail for what mmap returned.
create_dumb_bo(k, else) == Take("dumb", k, else) \o Call("dumb_size", k, Crash)

mmap_dumb_bo(k, else) == Call("map_dumb", k, Crash) \o Take("map", k, else)

vgem_test ==
  LET close_vgem_fd == Return(1) \o Give("card", 0)
      close_dumb_fd == Return(1) \o Give("card", 1) \o Give("card", 0)
      Mapped(k, else) == mmap_dumb_bo(k, else) \o Give("map", k)
      Verified(k, else) ==
        mmap_dumb_bo(k, else) \o Call("verify", k, close_vgem_fd)
        \o Give("map", k)
  IN  Take("card", 0, Return1)
      \o create_dumb_bo(0, close_vgem_fd)
      \o Mapped(0, close_vgem_fd) \o Verified(1, Crash)
      \o Take("prime_fd", 0, close_vgem_fd)
      \o Call("import", 0, close_vgem_fd)
      \o Verified(2, close_vgem_fd)
      \o Take("card", 1, close_vgem_fd)
      \o create_dumb_bo(1, close_dumb_fd)
      \o Take("prime_fd", 1, close_dumb_fd)
      \o Call("import", 1, close_vgem_fd)
      \o Mapped(3, close_vgem_fd) \o Verified(4, close_vgem_fd)
      \o Verified(5, close_vgem_fd)
      \o Give("card", 1) \o Give("card", 0)
      \o Return(0)

----------------------------------------------------------------------------
\* bsdrm/example/stripe.c, with a frame for each buffer.
stripe ==
  Make("plumber", 0) \o Take("card", 0, Return1) \o Make("connector", 0)
  \o Give("plumber", 0)
  \o Take("gbm", 0, Return1)
  \o framebuffers
  \o Make("mapper", 0)
  \o Twice([k \in Buffers |->
       Take("map", k, Return1) \o Give("map", k)
       \o Call("set_crtc", k, Return1)])
  \o Give("mapper", 0)
  \o Twice([k \in Buffers |-> Give("bo", k) \o Give("id", k)])
  \o Give("gbm", 0) \o Give("connector", 0) \o Give("card", 0)
  \o Return(0)

\* vk_glow up to its frames, one frame, and the end.  Everything is left to the
\* end of the process.
vk_glow ==
  Take("card", 0, Return1) \o Take("gbm", 0, Return1)
  \o Call("pipe", 0, Return1) \o Take("connector", 0, Return1)
  \o Take("instance", 0, Return1) \o Call("physical_device", 0, Return1)
  \o Call("queue_family", 0, Return1) \o Take("device", 0, Return1)
  \o Call("create_image_proc", 0, Return1)
  \o Take("cmd_pool", 0, Return1) \o Take("pass", 0, Return1)
  \o Twice([k \in Buffers |->
       Take("bo", k, Return1) \o Take("id", k, Return1)
       \o Take("prime_fd", k, Return1) \o Take("vk_image", k, Return1)
       \o Take("image_view", k, Return1) \o Take("framebuffer", k, Return1)
       \o Take("cmd_buf", k, Return1)])
  \o Call("set_crtc", 0, Return1)
  \o Call("draw", 1, Return1) \o Call("finish", 1, Return1)
  \o Call("flip", 1, Return1) \o Call("wait", 1, Return1)
  \o Return(0)
=============================================================================
