--------------------------- MODULE OutputLoop_proofs ---------------------------
(***************************************************************************)
(* Proofs about OutputLoop, for every pool of bos, every set of images and *)
(* any bound on the failures.                                              *)
(***************************************************************************)
EXTENDS OutputLoop, TLAPS

(* No bo is both on the panel and queued for it. *)
QueuedBoIsNotShown == current_bo # pending_bo

(* A flip in flight that no damage will follow carries the current image:  *)
(* it is what the panel shows once the loop has gone idle.                 *)
UndamagedFlipIsCurrent ==
  tex_program /\ waiting_flip /\ ~needs_frame /\ failures = 0
    => scanout = Fallback \/ drawn[pending_bo] = scanout

IInv ==
  /\ OutputTypeOK
  /\ LockedBosAreOnScreen
  /\ FlipAwaitedIffQueued
  /\ QueuedBoIsNotShown
  /\ UndamagedFlipIsCurrent
  /\ IdlePanelIsCurrent

-----------------------------------------------------------------------------
(* The loop starts with its first frame on the panel and a second queued.  *)
LEMMA InitEstablishes == OutputInit => IInv
<1> SUFFICES ASSUME OutputInit PROVE IInv
  OBVIOUS
<1>1. OutputTypeOK
  BY OutputDrmAssumption DEF OutputDrmAssumption, OutputInit, OutputTypeOK
<1>2. LockedBosAreOnScreen /\ FlipAwaitedIffQueued /\ QueuedBoIsNotShown
  BY OutputDrmAssumption DEF OutputDrmAssumption, OutputInit, LockedBosAreOnScreen,
     FlipAwaitedIffQueued, QueuedBoIsNotShown
<1>3. UndamagedFlipIsCurrent /\ IdlePanelIsCurrent
  BY DEF OutputInit, UndamagedFlipIsCurrent, IdlePanelIsCurrent
<1> QED
  BY <1>1, <1>2, <1>3 DEF IInv

-----------------------------------------------------------------------------
(* What render_and_present does, seen from its two callers: it leaves a    *)
(* locked, queued bo that holds img, or nothing queued and one failure     *)
(* more.                                                                   *)
LEMMA RenderAndPresentOutcome ==
  ASSUME OutputTypeOK
  PROVE  \A held \in SUBSET Bos, img \in Images \cup {Fallback} :
           RenderAndPresent(held, img) =>
             /\ drawn' \in [Bos -> Images \cup {Fallback}]
             /\ failures' \in 0 .. MaxFailures
             /\ waiting_flip' \in BOOLEAN
             /\ \/ /\ waiting_flip'
                   /\ pending_bo' \in Bos \ held
                   /\ locked' = held \cup {pending_bo'}
                   /\ drawn'[pending_bo'] = Drawn(img)
                \/ /\ ~waiting_flip'
                   /\ pending_bo' = NoBo
                   /\ locked' = held
                   /\ failures' # 0
<1> TAKE held \in SUBSET Bos, img \in Images \cup {Fallback}
<1> HAVE RenderAndPresent(held, img)
<1>1. CASE \E bo \in Bos \ held :
             /\ drawn' = [drawn EXCEPT ![bo] = Drawn(img)]
             /\ locked' = held \cup {bo}
             /\ pending_bo' = bo
             /\ waiting_flip' = TRUE
             /\ UNCHANGED failures
  BY <1>1 DEF OutputTypeOK, Drawn
<1>2. CASE /\ failures < MaxFailures
           /\ failures' = failures + 1
           /\ locked' = held
           /\ pending_bo' = NoBo
           /\ waiting_flip' = FALSE
           /\ UNCHANGED drawn
  <2>1. failures' \in 0 .. MaxFailures /\ failures' # 0
    BY <1>2, OutputDrmAssumption DEF OutputTypeOK, OutputDrmAssumption
  <2>2. drawn' \in [Bos -> Images \cup {Fallback}]
    BY <1>2 DEF OutputTypeOK
  <2> QED
    BY <1>2, <2>1, <2>2
<1> QED
  BY <1>1, <1>2 DEF RenderAndPresent

(* A flip that ends, with and without damage to follow. *)
LEMMA OnPageFlipPreserves ==
  ASSUME IInv, OnPageFlip
  PROVE  IInv'
<1> USE OutputDrmAssumption DEF OutputDrmAssumption
<1>1. /\ pending_bo \in Bos /\ current_bo \in Bos
      /\ pending_bo # current_bo
      /\ locked = {current_bo, pending_bo}
      /\ locked \ {current_bo} = {pending_bo}
  BY DEF IInv, OutputTypeOK, OnPageFlip, LockedBosAreOnScreen,
     FlipAwaitedIffQueued, QueuedBoIsNotShown
<1>2. /\ current_bo' = pending_bo
      /\ scanout' = scanout
      /\ scanout' \in Images \cup {Fallback}
      /\ tex_program' = tex_program
      /\ waiting_flip
      /\ lost' \in 0 .. MaxFailures
  BY DEF IInv, OutputTypeOK, OnPageFlip
<1>3. CASE needs_frame
  <2>1. needs_frame' = FALSE /\ RenderAndPresent({pending_bo}, scanout)
    BY <1>1, <1>3 DEF OnPageFlip
  <2>2. /\ drawn' \in [Bos -> Images \cup {Fallback}]
        /\ failures' \in 0 .. MaxFailures
        /\ waiting_flip' \in BOOLEAN
        /\ \/ /\ waiting_flip'
              /\ pending_bo' \in Bos \ {pending_bo}
              /\ locked' = {pending_bo} \cup {pending_bo'}
              /\ drawn'[pending_bo'] = Drawn(scanout)
           \/ /\ ~waiting_flip'
              /\ pending_bo' = NoBo
              /\ locked' = {pending_bo}
              /\ failures' # 0
    <3>1. OutputTypeOK /\ {pending_bo} \in SUBSET Bos
      BY <1>1 DEF IInv
    <3>2. scanout \in Images \cup {Fallback}
      BY <1>2
    <3> HIDE DEF OutputDrmAssumption
    <3> QED
      BY <2>1, <3>1, <3>2, RenderAndPresentOutcome
  <2>3. OutputTypeOK'
    BY <1>1, <1>2, <2>1, <2>2 DEF IInv, OutputTypeOK
  <2>4. LockedBosAreOnScreen' /\ FlipAwaitedIffQueued' /\ QueuedBoIsNotShown'
    BY <1>1, <1>2, <2>2 DEF LockedBosAreOnScreen, FlipAwaitedIffQueued,
       QueuedBoIsNotShown
  <2>5. UndamagedFlipIsCurrent' /\ IdlePanelIsCurrent'
    BY <1>2, <2>2 DEF UndamagedFlipIsCurrent, IdlePanelIsCurrent, Drawn
  <2> QED
    BY <2>3, <2>4, <2>5 DEF IInv
<1>4. CASE ~needs_frame
  <2>1. /\ locked' = {pending_bo}
        /\ pending_bo' = NoBo
        /\ waiting_flip' = FALSE
        /\ UNCHANGED <<needs_frame, drawn, failures>>
    BY <1>1, <1>4 DEF OnPageFlip
  <2>2. OutputTypeOK'
    BY <1>1, <1>2, <2>1 DEF IInv, OutputTypeOK
  <2>3. LockedBosAreOnScreen' /\ FlipAwaitedIffQueued' /\ QueuedBoIsNotShown'
    BY <1>1, <1>2, <2>1 DEF LockedBosAreOnScreen, FlipAwaitedIffQueued,
       QueuedBoIsNotShown
  <2>4. UndamagedFlipIsCurrent' /\ IdlePanelIsCurrent'
    BY <1>2, <1>4, <2>1 DEF IInv, UndamagedFlipIsCurrent, IdlePanelIsCurrent
  <2> QED
    BY <2>2, <2>3, <2>4 DEF IInv
<1> QED
  BY <1>3, <1>4

(* Damage: a commit of img that finds the loop idle, or a flip in flight.  *)
LEMMA ScheduleFramePreserves ==
  ASSUME IInv, NEW img \in Images \cup {Fallback},
         scanout' = img, ScheduleFrame(img), UNCHANGED <<tex_program, lost>>
  PROVE  IInv'
<1> USE OutputDrmAssumption DEF OutputDrmAssumption
<1>1. /\ needs_frame' = TRUE
      /\ current_bo' = current_bo
      /\ current_bo \in Bos
      /\ lost' \in 0 .. MaxFailures
  BY DEF IInv, OutputTypeOK, ScheduleFrame
<1>2. CASE waiting_flip
  <2>1. UNCHANGED <<waiting_flip, pending_bo, locked, drawn, failures>>
    BY <1>2 DEF ScheduleFrame
  <2> QED
    BY <1>1, <1>2, <2>1 DEF IInv, OutputTypeOK, LockedBosAreOnScreen,
       FlipAwaitedIffQueued, QueuedBoIsNotShown, UndamagedFlipIsCurrent,
       IdlePanelIsCurrent
<1>3. CASE ~waiting_flip
  <2>1. locked = {current_bo} /\ RenderAndPresent(locked, img)
    BY <1>1, <1>3 DEF IInv, OutputTypeOK, LockedBosAreOnScreen,
       FlipAwaitedIffQueued, ScheduleFrame
  <2>2. /\ drawn' \in [Bos -> Images \cup {Fallback}]
        /\ failures' \in 0 .. MaxFailures
        /\ waiting_flip' \in BOOLEAN
        /\ \/ /\ waiting_flip'
              /\ pending_bo' \in Bos \ locked
              /\ locked' = locked \cup {pending_bo'}
           \/ /\ ~waiting_flip'
              /\ pending_bo' = NoBo
              /\ locked' = locked
              /\ failures' # 0
    BY <1>1, <2>1, RenderAndPresentOutcome DEF IInv
  <2>3. OutputTypeOK'
    BY <1>1, <2>1, <2>2 DEF IInv, OutputTypeOK
  <2>4. LockedBosAreOnScreen' /\ FlipAwaitedIffQueued' /\ QueuedBoIsNotShown'
    BY <1>1, <2>1, <2>2 DEF LockedBosAreOnScreen, FlipAwaitedIffQueued,
       QueuedBoIsNotShown
  <2>5. UndamagedFlipIsCurrent' /\ IdlePanelIsCurrent'
    BY <1>1, <2>2 DEF UndamagedFlipIsCurrent, IdlePanelIsCurrent
  <2> QED
    BY <2>3, <2>4, <2>5 DEF IInv
<1> QED
  BY <1>2, <1>3

(* The image is dropped or kept, and nothing is scheduled. *)
LEMMA ImportFailedPreserves ==
  ASSUME IInv, ShellImportFailed
  PROVE  IInv'
BY OutputDrmAssumption DEF OutputDrmAssumption, IInv, ShellImportFailed, OutputTypeOK, LockedBosAreOnScreen,
   FlipAwaitedIffQueued, QueuedBoIsNotShown, UndamagedFlipIsCurrent,
   IdlePanelIsCurrent

LEMMA NextPreserves == IInv /\ [OutputNext]_outputVars => IInv'
<1> SUFFICES ASSUME IInv, [OutputNext]_outputVars PROVE IInv'
  OBVIOUS
<1>1. CASE OnPageFlip
  BY <1>1, OnPageFlipPreserves
<1>2. CASE ShellDetached
  BY <1>2, ScheduleFramePreserves DEF ShellDetached
<1>3. ASSUME NEW img \in Images, ShellImported(img)
      PROVE  IInv'
  BY <1>3, ScheduleFramePreserves DEF ShellImported
<1>4. CASE ShellImportFailed
  BY <1>4, ImportFailedPreserves
<1>5. CASE UNCHANGED outputVars
  BY <1>5 DEF outputVars, IInv, OutputTypeOK, LockedBosAreOnScreen,
     FlipAwaitedIffQueued, QueuedBoIsNotShown, UndamagedFlipIsCurrent,
     IdlePanelIsCurrent
<1> QED
  BY <1>1, <1>2, <1>3, <1>4, <1>5 DEF OutputNext, ShellCommit

(* The inductive invariant of the page-flip loop. *)
THEOREM Invariance == OutputSpec => []IInv
BY InitEstablishes, NextPreserves, PTL DEF OutputSpec

-----------------------------------------------------------------------------
(* The variables of output_drm.c keep their types; current_bo in           *)
(* particular is never NULL once output_drm__init has returned.            *)
THEOREM TypeCorrect == OutputSpec => []OutputTypeOK
BY Invariance, PTL DEF IInv

(* gbm's front buffers: on_page_flip and the failure paths of              *)
(* render_and_present release every bo but the one shown and the one       *)
(* queued, and no other.                                                   *)
THEOREM LockedBosCorrect == OutputSpec => []LockedBosAreOnScreen
BY Invariance, PTL DEF IInv

(* waiting_flip is set exactly while a flip is queued in the kernel.       *)
THEOREM FlipAwaitedCorrect == OutputSpec => []FlipAwaitedIffQueued
BY Invariance, PTL DEF IInv

(* No damage is lost: when the loop has gone idle without a failed render, *)
(* the panel shows the image the shell committed last, or no image ever    *)
(* where the shader could not be compiled.                                 *)
THEOREM IdlePanelCorrect == OutputSpec => []IdlePanelIsCurrent
BY Invariance, PTL DEF IInv
=============================================================================
