------------------------------- MODULE XdgShell -------------------------------
(***************************************************************************)
(* xdg_wm_base, xdg_surface and xdg_toplevel (meek-compositor/src/         *)
(* xdg_shell.c).  A window w stands for one wl_surface, the xdg_surface    *)
(* made from it and the xdg_toplevel made from that: three objects that    *)
(* the client destroys one by one, in an order of its choice.              *)
(***************************************************************************)
EXTENDS MeekShellV1

CONSTANTS
  Windows,
  owner     \* the client of each window

ASSUME XdgShellAssumption == owner \in [Windows -> Clients]

VARIABLES
  xdg,         \* struct xdg_surface; listed while it is in the module's list
  toplevel,    \* struct xdg_toplevel; what a freed one held stays readable
  next_handle

xdgVars == <<xdg, toplevel, next_handle>>

XdgSurfaces ==
  [listed : BOOLEAN, wl_surface : BOOLEAN, role : {"none", "toplevel", "popup"},
   toplevel : BOOLEAN, pending_configure : BOOLEAN]

Toplevels ==
  [live : BOOLEAN, handle : 0 .. MaxHandle, title : Titles,
   configured : BOOLEAN, sized : BOOLEAN]

NoXdgSurface ==
  [listed |-> FALSE, wl_surface |-> FALSE, role |-> "none",
   toplevel |-> FALSE, pending_configure |-> FALSE]

NoToplevel ==
  [live |-> FALSE, handle |-> 0, title |-> NoTitle, configured |-> FALSE,
   sized |-> FALSE]

XdgInit ==
  /\ xdg = [w \in Windows |-> NoXdgSurface]
  /\ toplevel = [w \in Windows |-> NoToplevel]
  /\ next_handle = 1

WindowsOf(c) == {w \in Windows : owner[w] = c}

LiveHandles == {toplevel[w].handle : w \in {v \in Windows : toplevel[v].live}}

-----------------------------------------------------------------------------
(* The list walks all ask for a listed xdg_surface with the toplevel role   *)
(* and a toplevel pointer, which nothing nulls when the toplevel is freed.  *)
HasToplevel(w) ==
  xdg[w].listed /\ xdg[w].role = "toplevel" /\ xdg[w].toplevel

(* The handles that reading xdg[w]->toplevel->handle may yield.  In freed   *)
(* memory that is the old value, a cleared one, or the handle of the        *)
(* toplevel that malloc has put there since.                                *)
HandleRead(w) ==
  IF toplevel[w].live THEN {toplevel[w].handle}
  ELSE {0, toplevel[w].handle} \cup LiveHandles

(* get_toplevel_handle_for_surface *)
SurfaceHandle(w) ==
  IF xdg[w].wl_surface /\ HasToplevel(w) THEN HandleRead(w) ELSE {0}

-----------------------------------------------------------------------------
(* get_xdg_surface *)
GetXdgSurface(w) ==
  /\ ~xdg[w].listed /\ ~toplevel[w].live
  /\ xdg' = [xdg EXCEPT ![w] = [NoXdgSurface EXCEPT !.listed = TRUE,
                                                    !.wl_surface = TRUE]]
  /\ UNCHANGED <<toplevel, next_handle, told>>

(* Mutant: the handle is not incremented. *)
GetToplevel_NoIncrement(w) ==
  /\ xdg[w].listed /\ xdg[w].role = "none"
  /\ xdg' = [xdg EXCEPT ![w].role = "toplevel", ![w].toplevel = TRUE,
                        ![w].pending_configure = TRUE]
  /\ next_handle \in Handles
  /\ toplevel' = [toplevel EXCEPT ![w] =
       [NoToplevel EXCEPT !.live = TRUE, !.handle = next_handle]]
  /\ FireTitle(next_handle, NoTitle)
  /\ UNCHANGED next_handle

(* get_toplevel: a window of any client but the shell gets a handle, and    *)
(* the shell is told of it at once.  Its sizes are not initialised.         *)
GetToplevel(w) ==
  /\ xdg[w].listed /\ xdg[w].role = "none"
  /\ xdg' = [xdg EXCEPT ![w].role = "toplevel", ![w].toplevel = TRUE,
                        ![w].pending_configure = TRUE]
  /\ IF owner[w] # bound
     THEN /\ next_handle \in Handles
          /\ toplevel' = [toplevel EXCEPT ![w] =
               [NoToplevel EXCEPT !.live = TRUE, !.handle = next_handle]]
          /\ next_handle' = next_handle + 1
          /\ FireTitle(next_handle, NoTitle)
     ELSE /\ toplevel' = [toplevel EXCEPT ![w] =
               [NoToplevel EXCEPT !.live = TRUE]]
          /\ UNCHANGED <<next_handle, told>>

(* get_popup *)
GetPopup(w) ==
  /\ xdg[w].listed /\ xdg[w].role = "none"
  /\ xdg' = [xdg EXCEPT ![w].role = "popup", ![w].pending_configure = TRUE]
  /\ UNCHANGED <<toplevel, next_handle, told>>

(* set_title *)
SetTitle(w, t) ==
  /\ toplevel[w].live
  /\ toplevel' = [toplevel EXCEPT ![w].title = t]
  /\ IF toplevel[w].handle # 0 THEN FireTitle(toplevel[w].handle, t)
                               ELSE UNCHANGED told
  /\ UNCHANGED <<xdg, next_handle>>

(* Mutant: a toplevel dies without a word to the shell. *)
FireToplevelsRemoved_Silent(ws) == UNCHANGED told

(* toplevel__destroy_resource of the live ones in ws: the shell is told.    *)
FireToplevelsRemoved(ws) ==
  FireRemoved({toplevel[w].handle : w \in {v \in ws : toplevel[v].live}})

(* The toplevel of w is freed while the xdg_surface lives on, or after it.  *)
ToplevelFreed(w) ==
  /\ toplevel' = IF xdg[w].listed THEN [toplevel EXCEPT ![w].live = FALSE]
                                  ELSE [toplevel EXCEPT ![w] = NoToplevel]
  /\ UNCHANGED <<xdg, next_handle>>

(* xdg_surface__destroy_resource: unlink it and clear the role hook.  Its   *)
(* toplevel, if it still has one, is not told.                              *)
XdgSurfaceFreed(w) ==
  /\ xdg' = [xdg EXCEPT ![w] = NoXdgSurface]
  /\ toplevel' = IF toplevel[w].live THEN toplevel
                 ELSE [toplevel EXCEPT ![w] = NoToplevel]
  /\ UNCHANGED next_handle

(* Both, for each window in ws. *)
WindowsFreed(ws) ==
  /\ xdg' = [w \in Windows |-> IF w \in ws THEN NoXdgSurface ELSE xdg[w]]
  /\ toplevel' = [w \in Windows |-> IF w \in ws THEN NoToplevel
                                    ELSE toplevel[w]]
  /\ UNCHANGED next_handle

(* on_wl_surface_destroyed *)
WlSurfaceGone(w) ==
  /\ xdg' = [xdg EXCEPT ![w].wl_surface = FALSE]
  /\ UNCHANGED <<toplevel, next_handle>>

(* A commit on the wl_surface of w, as far as this module hears of it:      *)
(* on_wl_surface_commit sends the one configure that get_toplevel or        *)
(* get_popup owes, and record_buffer_size notes a buffer that was sent.     *)
CommitSeen(w, sent) ==
  LET due == xdg[w].wl_surface /\ xdg[w].pending_configure IN
  /\ xdg' = [xdg EXCEPT ![w].pending_configure = @ /\ ~due]
  /\ toplevel' = [toplevel EXCEPT
       ![w].configured = @ \/ (due /\ toplevel[w].live),
       ![w].sized = @ \/ (sent /\ toplevel[w].live)]
  /\ UNCHANGED next_handle

(* Mutant: nothing is demoted. *)
DemoteToplevels_None(c) == UNCHANGED xdgVars

(* demote_client_toplevels: the windows a client made before it was bound   *)
(* as the shell lose their handles.                                         *)
DemoteToplevels(c) ==
  /\ toplevel' = [w \in Windows |->
       IF HasToplevel(w) /\ owner[w] = c /\ toplevel[w].live
       THEN [toplevel[w] EXCEPT !.handle = 0] ELSE toplevel[w]]
  /\ UNCHANGED <<xdg, next_handle>>

(* Mutant: nothing is replayed. *)
Replay_None(read) == UNCHANGED told

(* foreach_toplevel_for_replay with replay_cb: read is the handle found     *)
(* through each listed toplevel pointer, sent with the title stored there.  *)
Replay(read) ==
  LET found == {read[w] : w \in {v \in Windows : HasToplevel(v)}}
      Struct(h) == CHOOSE w \in Windows :
                     /\ toplevel[w].handle = h
                     /\ h \in LiveHandles => toplevel[w].live
  IN  told' = [h \in Handles |->
                 IF h \in found THEN toplevel[Struct(h)].title ELSE told[h]]
=============================================================================
