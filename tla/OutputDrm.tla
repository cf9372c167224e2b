------------------------------ MODULE OutputDrm ------------------------------
(***************************************************************************)
(* The DRM/KMS output of meek-compositor (src/output_drm.c): the page-flip *)
(* loop, its damage gate, the gbm buffer objects (bos) it cycles through,  *)
(* and the image that the shell's last commit left for scanout.            *)
(*                                                                         *)
(* The compositor is one thread around one event loop, so every handler    *)
(* below is one step.  The initial state is the one output_drm__init       *)
(* leaves when it returns 0: the mode is set with a first frame, and the   *)
(* page flip of a second one is in flight.                                 *)
(***************************************************************************)
EXTENDS Naturals, FiniteSets

CONSTANTS
  Bos,          \* the gbm_bo pool behind the gbm_surface
  NoBo,         \* the NULL gbm_bo
  Images,       \* the dmabuf contents the shell may commit
  Fallback,     \* the gradient drawn while no scanout texture is valid
  MaxFailures   \* bound: how often a render, or an import, may fail

ASSUME OutputDrmAssumption ==
  /\ IsFiniteSet(Bos) /\ Cardinality(Bos) >= 2
  /\ NoBo \notin Bos
  /\ Fallback \notin Images
  /\ MaxFailures \in Nat

VARIABLES
  needs_frame,   \* the damage gate
  waiting_flip,  \* a page flip is queued in the kernel
  current_bo,    \* the bo on the panel
  pending_bo,    \* the bo of the queued flip
  locked,        \* bos locked with gbm_surface_lock_front_buffer
  drawn,         \* what was last rendered into each bo
  scanout,       \* the imported scanout image; Fallback when not valid
  tex_program,   \* the shader that draws it was compiled
  failures,      \* render_and_present failures so far
  lost           \* imports of a committed image that failed so far

outputVars == <<needs_frame, waiting_flip, current_bo, pending_bo, locked,
                drawn, scanout, tex_program, failures, lost>>

(* A shader that does not compile is not fatal (output_drm.c:298).          *)
OutputInit ==
  /\ needs_frame = TRUE
  /\ waiting_flip = TRUE
  /\ current_bo \in Bos
  /\ pending_bo \in Bos \ {current_bo}
  /\ locked = {current_bo, pending_bo}
  /\ drawn = [bo \in Bos |-> Fallback]
  /\ scanout = Fallback
  /\ tex_program \in BOOLEAN
  /\ failures = 0 /\ lost = 0

(* Under nested X11 and headless output_drm__init is never called. *)
OutputOff ==
  /\ needs_frame = TRUE
  /\ waiting_flip = FALSE
  /\ current_bo = NoBo /\ pending_bo = NoBo
  /\ locked = {}
  /\ drawn = [bo \in Bos |-> Fallback]
  /\ scanout = Fallback
  /\ tex_program = FALSE
  /\ failures = 0 /\ lost = 0

(* What a frame shows of an image: without its program, the gradient.       *)
Drawn(img) == IF tex_program THEN img ELSE Fallback

(***************************************************************************)
(* render_and_present with the bos in held locked: draw img into a free    *)
(* bo, lock it and queue its flip, or fail somewhere on the way (make      *)
(* current, swap, lock, add fb, drmModePageFlip), which releases the bo    *)
(* again and queues nothing.                                               *)
(***************************************************************************)
RenderAndPresent(held, img) ==
  \/ \E bo \in Bos \ held :
       /\ drawn' = [drawn EXCEPT ![bo] = Drawn(img)]
       /\ locked' = held \cup {bo}
       /\ pending_bo' = bo
       /\ waiting_flip' = TRUE
       /\ UNCHANGED failures
  \/ /\ failures < MaxFailures
     /\ failures' = failures + 1
     /\ locked' = held
     /\ pending_bo' = NoBo
     /\ waiting_flip' = FALSE
     /\ UNCHANGED drawn

(* Mutants: the damage of a commit during a flip is dropped; an idle loop   *)
(* is marked but not started.                                               *)
ScheduleFrame_Lossy(img) ==
  IF waiting_flip
  THEN UNCHANGED <<needs_frame, current_bo, waiting_flip, pending_bo, locked,
                   drawn, failures>>
  ELSE /\ needs_frame' = TRUE
       /\ UNCHANGED current_bo
       /\ RenderAndPresent(locked, img)

ScheduleFrame_NoKick(img) ==
  /\ needs_frame' = TRUE
  /\ UNCHANGED <<current_bo, waiting_flip, pending_bo, locked, drawn, failures>>

(* output_drm__schedule_frame, called with img as the scanout image. *)
ScheduleFrame(img) ==
  /\ needs_frame' = TRUE
  /\ UNCHANGED current_bo
  /\ IF waiting_flip
     THEN UNCHANGED <<waiting_flip, pending_bo, locked, drawn, failures>>
     ELSE RenderAndPresent(locked, img)

(* Mutant: the old bo is not released.                                      *)
OnPageFlip_Leak ==
  /\ waiting_flip
  /\ current_bo' = pending_bo
  /\ IF needs_frame
     THEN /\ needs_frame' = FALSE
          /\ RenderAndPresent(locked, scanout)
     ELSE /\ pending_bo' = NoBo
          /\ waiting_flip' = FALSE
          /\ UNCHANGED <<locked, needs_frame, drawn, failures>>
  /\ UNCHANGED <<scanout, tex_program, lost>>

(***************************************************************************)
(* on_page_flip: the queued bo is now on the panel and the previous one    *)
(* goes back to gbm; the loop goes on only if the output was damaged.      *)
(* Its call of globals__fire_frame_callbacks is added by the composition.  *)
(***************************************************************************)
OnPageFlip ==
  /\ waiting_flip
  /\ current_bo' = pending_bo
  /\ IF needs_frame
     THEN /\ needs_frame' = FALSE
          /\ RenderAndPresent(locked \ {current_bo}, scanout)
     ELSE /\ locked' = locked \ {current_bo}
          /\ pending_bo' = NoBo
          /\ waiting_flip' = FALSE
          /\ UNCHANGED <<needs_frame, drawn, failures>>
  /\ UNCHANGED <<scanout, tex_program, lost>>

(***************************************************************************)
(* output_drm__on_shell_commit.  A commit without a buffer reverts to the  *)
(* fallback, a dmabuf becomes the scanout image; both schedule a frame.    *)
(***************************************************************************)
ShellDetached ==
  /\ scanout' = Fallback
  /\ ScheduleFrame(Fallback)
  /\ UNCHANGED <<tex_program, lost>>

ShellImported(img) ==
  /\ scanout' = img
  /\ ScheduleFrame(img)
  /\ UNCHANGED <<tex_program, lost>>

(* The import fails before or after release_scanout dropped the previous   *)
(* image, and no frame is scheduled.                                       *)
ShellImportFailed ==
  /\ lost < MaxFailures
  /\ lost' = lost + 1
  /\ scanout' \in {scanout, Fallback}
  /\ UNCHANGED <<needs_frame, waiting_flip, current_bo, pending_bo, locked,
                 drawn, tex_program, failures>>

-----------------------------------------------------------------------------
(* Once the loop has gone idle, and as long as no render has failed, the   *)
(* panel shows the image that the shell committed last: over commits that  *)
(* find the loop idle, commits during a flip, and damage that comes with   *)
(* the very flip that would have ended the loop.  Where the shader could    *)
(* not be compiled no image is ever drawn.                                  *)
IdlePanelIsCurrent ==
  tex_program /\ ~waiting_flip /\ failures = 0
    => scanout = Fallback \/ drawn[current_bo] = scanout
=============================================================================
