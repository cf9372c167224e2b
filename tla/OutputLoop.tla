------------------------------ MODULE OutputLoop ------------------------------
(***************************************************************************)
(* The page-flip loop of OutputDrm on its own, driven by the commits of a  *)
(* shell and by the kernel's flip events.                                  *)
(***************************************************************************)
EXTENDS OutputDrm

ShellCommit ==
  \/ ShellDetached
  \/ \E img \in Images : ShellImported(img)
  \/ ShellImportFailed

OutputNext == OnPageFlip \/ ShellCommit

(* The kernel acknowledges every flip it has queued. *)
OutputSpec == OutputInit /\ [][OutputNext]_outputVars /\ WF_outputVars(OnPageFlip)

-----------------------------------------------------------------------------
OutputTypeOK ==
  /\ needs_frame \in BOOLEAN
  /\ waiting_flip \in BOOLEAN
  /\ current_bo \in Bos
  /\ pending_bo \in Bos \cup {NoBo}
  /\ locked \in SUBSET Bos
  /\ drawn \in [Bos -> Images \cup {Fallback}]
  /\ scanout \in Images \cup {Fallback}
  /\ tex_program \in BOOLEAN
  /\ failures \in 0 .. MaxFailures /\ lost \in 0 .. MaxFailures

(* Every bo the panel shows or is about to show is locked, and no other    *)
(* one is: a bo scanned out while gbm may draw into it again tears, one    *)
(* that is never released empties the pool.  Over the release in           *)
(* on_page_flip and every failure path of render_and_present.              *)
LockedBosAreOnScreen == locked = {current_bo, pending_bo} \ {NoBo}

(* A flip is awaited exactly when a bo is queued: drm allows one flip at a *)
(* time, and a loop that waits for a flip nobody queued never wakes.       *)
FlipAwaitedIffQueued == waiting_flip <=> pending_bo # NoBo

(* As long as no render fails, and if the shader for it was compiled, an   *)
(* image imported from the shell reaches the panel unless the shell        *)
(* replaces it first: whether its commit finds the loop idle, or a flip in *)
(* flight that was drawn before it.                                        *)
ImportedImageReachesPanel ==
  \A img \in Images :
    tex_program /\ scanout = img ~> (scanout # img \/ drawn[current_bo] = img \/ failures > 0)

-----------------------------------------------------------------------------
(* output_drm.c, on_page_flip: "Errors here don't tear down the compositor *)
(* -- we'll try again on the next iteration (the event loop keeps          *)
(* running)."                                                              *)
FailedRenderIsRetried ==
  \A img \in Images :
    (tex_program /\ scanout = img /\ failures = MaxFailures)
      ~> (scanout # img \/ drawn[current_bo] = img)
=============================================================================
