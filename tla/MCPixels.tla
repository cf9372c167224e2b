------------------------------- MODULE MCPixels -------------------------------
(***************************************************************************)
(* An instance of Compositor about buffers and frames: an app with one     *)
(* window, and a shell with its own.                                       *)
(***************************************************************************)
EXTENDS Compositor, TLC

CONSTANTS app, shell1, appWin, shellWin, dma1, dma2, shm1, shellBuf, shellBuf2

MCOwner == [w \in Windows |-> IF w = shellWin THEN shell1 ELSE app]
MCMaker == [b \in Buffers |-> IF b \in {shellBuf, shellBuf2} THEN shell1 ELSE app]

(***************************************************************************)
(* A session that is up: every client is connected, every window is a      *)
(* toplevel that has not committed yet, every buffer exists, and the shell *)
(* is bound and has announced itself.  The scanout shader was compiled:    *)
(* without it other pixels are drawn and nothing else differs.             *)
(***************************************************************************)
MCHandle == (appWin :> 1) @@ (shellWin :> 0)

SessionInit ==
  /\ connected = Clients
  /\ bound = shell1
  /\ announced = TRUE /\ ready = TRUE
  /\ buffer_id = [b \in Buffers |-> 0]
  /\ next_buffer_id = 1
  /\ told = [h \in Handles |->
               IF h = 1 THEN NoTitle ELSE Untold]
  /\ shown = NothingShown
  /\ held = {}
  /\ shell_owes_frame = FALSE
  /\ xdg = [w \in Windows |->
              [listed |-> TRUE, wl_surface |-> TRUE, role |-> "toplevel",
               toplevel |-> TRUE, pending_configure |-> TRUE]]
  /\ toplevel = [w \in Windows |->
                   [NoToplevel EXCEPT !.live = TRUE, !.handle = MCHandle[w]]]
  /\ next_handle = 2
  /\ surface = [w \in Windows |-> [NoSurface EXCEPT !.live = TRUE]]
  /\ buffer_live = Buffers
  /\ IF DrmActive THEN Output!OutputInit /\ tex_program ELSE Output!OutputOff

SessionSpec == SessionInit /\ [][Next]_vars
PacedSpec   == SessionSpec /\ Fairness
=============================================================================
