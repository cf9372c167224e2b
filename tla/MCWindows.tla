------------------------------- MODULE MCWindows -------------------------------
(***************************************************************************)
(* An instance of Compositor about the window list: one app with two       *)
(* windows, and two shells of which the first has a window of its own.     *)
(* No buffers, and no DRM output.                                          *)
(***************************************************************************)
EXTENDS Compositor, TLC

CONSTANTS app, shell1, shell2, appWin1, appWin2, shellWin

MCOwner == (appWin1 :> app) @@ (appWin2 :> app) @@ (shellWin :> shell1)
MCMaker == [b \in {} |-> app]

(* The windows of the app are told apart by their handles only.             *)
Interchangeable == Permutations({appWin1, appWin2})

(***************************************************************************)
(* Bound of the run: while a toplevel, live or freed, has a title, no      *)
(* wl_surface is gone before what was made from it.                        *)
(***************************************************************************)
TitlesOrOrders ==
  \/ \A w \in Windows : toplevel[w].title = NoTitle
  \/ \A w \in Windows : xdg[w].listed => xdg[w].wl_surface
=============================================================================
