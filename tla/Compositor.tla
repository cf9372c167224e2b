------------------------------ MODULE Compositor ------------------------------
(***************************************************************************)
(* meek-compositor: the clients of one Wayland display, their windows and  *)
(* buffers, the shell bridge and the DRM output, composed.                 *)
(*                                                                         *)
(* The compositor is a single thread that dispatches one request or one    *)
(* kernel event at a time; each action is one such dispatch, with every    *)
(* call across the components that it makes.                               *)
(***************************************************************************)
EXTENDS Surface

CONSTANTS
  DrmActive,      \* FALSE under nested X11 and headless, where no flip happens
  Bos, NoBo, Fallback, MaxFailures,
  Requests,       \* bound: the optional requests the clients make
  Teardown        \* the orders in which clients destroy a window's objects

ASSUME CompositorAssumption ==
  /\ DrmActive \in BOOLEAN
  /\ IsFiniteSet(Bos) /\ Cardinality(Bos) >= 2 /\ NoBo \notin Bos
  /\ Fallback \notin Buffers /\ MaxFailures \in Nat
  /\ Teardown \subseteq {"together", "split", "reversed", "surface_first"}

VARIABLES
  connected,    \* the clients with a live connection
  needs_frame, waiting_flip, current_bo, pending_bo, locked, drawn, scanout,
  tex_program, failures, lost

Output == INSTANCE OutputDrm WITH Images <- Buffers

outputVars == <<needs_frame, waiting_flip, current_bo, pending_bo, locked,
                drawn, scanout, tex_program, failures, lost>>
vars == <<connected, meekVars, xdgVars, surfaceVars, outputVars>>

Init ==
  /\ connected = {}
  /\ MeekInit
  /\ XdgInit
  /\ SurfaceInit
  /\ IF DrmActive THEN Output!OutputInit ELSE Output!OutputOff

-----------------------------------------------------------------------------
(* Requests of a client to its own window. *)

Calls(w, request) == owner[w] \in connected /\ request \in Requests

compositor_create_surface(w) ==
  /\ owner[w] \in connected
  /\ CreateSurface(w)
  /\ UNCHANGED <<connected, meekVars, xdgVars, buffer_live, outputVars>>

wm_base_get_xdg_surface(w) ==
  /\ owner[w] \in connected
  /\ surface[w].live
  /\ GetXdgSurface(w)
  /\ UNCHANGED <<connected, meekVars, surfaceVars, outputVars>>

xdg_surface_get_toplevel(w) ==
  /\ owner[w] \in connected
  /\ GetToplevel(w)
  /\ UNCHANGED <<connected, slotVars, cacheVars, pixelsVars, surfaceVars,
                 outputVars>>

xdg_surface_get_popup(w) ==
  /\ Calls(w, "popup")
  /\ GetPopup(w)
  /\ UNCHANGED <<connected, meekVars, surfaceVars, outputVars>>

toplevel_set_title(w, t) ==
  /\ Calls(w, "title")
  /\ SetTitle(w, t)
  /\ UNCHANGED <<connected, slotVars, cacheVars, pixelsVars, surfaceVars,
                 outputVars>>

(* The destroy requests of the three objects of a window.  A client sends   *)
(* them one after the other; "together" is the usual case that they arrive  *)
(* in one read and are dispatched with nothing in between.                  *)
window_destroy(w) ==
  /\ owner[w] \in connected
  /\ "together" \in Teardown
  /\ toplevel[w].live /\ xdg[w].listed
  /\ FireToplevelsRemoved({w})
  /\ WindowsFreed({w})
  /\ UNCHANGED <<connected, slotVars, cacheVars, pixelsVars, surfaceVars,
                 outputVars>>

toplevel_destroy(w) ==
  /\ owner[w] \in connected
  /\ toplevel[w].live
  /\ xdg[w].listed => "split" \in Teardown
  /\ FireToplevelsRemoved({w})
  /\ ToplevelFreed(w)
  /\ UNCHANGED <<connected, slotVars, cacheVars, pixelsVars, surfaceVars,
                 outputVars>>

xdg_surface_destroy(w) ==
  /\ owner[w] \in connected
  /\ xdg[w].listed
  /\ toplevel[w].live => "reversed" \in Teardown
  /\ XdgSurfaceFreed(w)
  /\ UNCHANGED <<connected, meekVars, surfaceVars, outputVars>>

surface_destroy(w) ==
  /\ owner[w] \in connected
  /\ surface[w].live
  /\ xdg[w].listed => "surface_first" \in Teardown
  /\ SurfacesAndBuffersGone({w}, {})
  /\ WlSurfaceGone(w)
  /\ UNCHANGED <<connected, meekVars, outputVars>>

surface_attach(w, b) ==
  /\ Calls(w, "attach")
  /\ b \in {NoBuffer} \cup (BuffersOf(owner[w]) \cap buffer_live)
  /\ Attach(w, b)
  /\ UNCHANGED <<connected, meekVars, xdgVars, buffer_live, outputVars>>

surface_frame(w) ==
  /\ Calls(w, "frame")
  /\ Frame(w)
  /\ UNCHANGED <<connected, meekVars, xdgVars, buffer_live, outputVars>>

-----------------------------------------------------------------------------
(* wl_surface.commit.  The shell's own surface is what the output scans     *)
(* out; a buffer of any other surface goes to the shell as a texture.       *)

(* output_drm__on_shell_commit *)
ScanOut(b) ==
  IF ~DrmActive \/ b \in Shm THEN UNCHANGED outputVars
  ELSE IF b = NoBuffer THEN Output!ShellDetached
  ELSE Output!ShellImported(b) \/ Output!ShellImportFailed

ShellCommit(w, s) ==
  /\ surface' = [surface EXCEPT ![w] = s]
  /\ ScanOut(s.current)
  /\ CommitSeen(w, FALSE)
  /\ shell_owes_frame' = FALSE
  /\ UNCHANGED <<cacheVars, told, shown, held>>

AppCommit(w, s) ==
  /\ \E h \in (IF PassesGate(s) THEN SurfaceHandle(w) ELSE {0}),
        sent \in BOOLEAN :
       /\ IF h = 0
          THEN /\ ~sent
               /\ surface' = [surface EXCEPT ![w] = s]
               /\ UNCHANGED <<cacheVars, pixelsVars>>
          ELSE /\ FireBuffer(h, s.current, sent)
               /\ surface' = [surface EXCEPT ![w] = Forwarded(s)]
       /\ CommitSeen(w, sent)
  /\ UNCHANGED <<told, outputVars>>

surface_commit(w) ==
  /\ Calls(w, "commit")
  /\ surface[w].live
  /\ IF owner[w] = bound THEN ShellCommit(w, Swapped(surface[w]))
                         ELSE AppCommit(w, Swapped(surface[w]))
  /\ UNCHANGED <<connected, slotVars, buffer_live>>

-----------------------------------------------------------------------------
(* wl_buffers, and the coming and going of clients. *)

buffer_create(b) ==
  /\ maker[b] \in connected
  /\ b \notin buffer_live
  /\ buffer_live' = buffer_live \cup {b}
  /\ UNCHANGED <<connected, meekVars, xdgVars, surface, outputVars>>

buffer_destroy(b) ==
  /\ maker[b] \in connected /\ "buffer_destroy" \in Requests
  /\ b \in buffer_live
  /\ SurfacesAndBuffersGone({}, {b})
  /\ FireForgotten({b})
  /\ DropCached({b})
  /\ UNCHANGED <<connected, slotVars, told, shown, shell_owes_frame, xdgVars,
                 outputVars>>

connect(c) ==
  /\ c \notin connected
  /\ connected' = connected \cup {c}
  /\ UNCHANGED <<meekVars, xdgVars, surfaceVars, outputVars>>

(* A client exits or crashes: libwayland destroys all it owned at once. *)
disconnect(c) ==
  /\ c \in connected /\ "disconnect" \in Requests
  /\ connected' = connected \ {c}
  /\ SurfacesAndBuffersGone(WindowsOf(c), BuffersOf(c))
  /\ WindowsFreed(WindowsOf(c))
  /\ DropCached(BuffersOf(c))
  /\ IF bound = c
     THEN FreeSlot
     ELSE /\ FireToplevelsRemoved(WindowsOf(c))
          /\ FireForgotten(BuffersOf(c))
          /\ UNCHANGED <<slotVars, shown, shell_owes_frame>>
  /\ UNCHANGED outputVars

-----------------------------------------------------------------------------
(* Requests of the shell on its meek_shell_v1 resource. *)

meek_shell_bind(c) ==
  /\ c \in connected
  /\ TakeSlot(c)
  /\ DemoteToplevels(c)
  /\ UNCHANGED <<connected, cacheVars, told, pixelsVars, surfaceVars, outputVars>>

(* A shell may send it again, and is told all again.                        *)
meek_shell_announce_ready ==
  /\ bound # NoClient
  /\ announced' = TRUE
  /\ ready' = TRUE
  /\ \E read \in [Windows -> 0 .. MaxHandle] :
       /\ \A w \in Windows : read[w] \in (IF HasToplevel(w) THEN HandleRead(w)
                                                        ELSE {0})
       /\ Replay(read)
  /\ UNCHANGED <<connected, bound, cacheVars, pixelsVars, xdgVars, surfaceVars,
                 outputVars>>

meek_shell_destroy ==
  /\ bound # NoClient /\ "shell_destroy" \in Requests
  /\ FreeSlot
  /\ UNCHANGED <<connected, cacheVars, xdgVars, surfaceVars, outputVars>>

-----------------------------------------------------------------------------
(* The kernel reports the end of a page flip. *)
page_flip ==
  /\ Output!OnPageFlip
  /\ FireFrameCallbacks
  /\ UNCHANGED <<connected, meekVars, xdgVars, buffer_live>>

-----------------------------------------------------------------------------
WindowRequest(w) ==
  \/ compositor_create_surface(w)
  \/ wm_base_get_xdg_surface(w)
  \/ xdg_surface_get_toplevel(w)
  \/ xdg_surface_get_popup(w)
  \/ \E t \in Titles \ {NoTitle} : toplevel_set_title(w, t)
  \/ window_destroy(w)
  \/ toplevel_destroy(w)
  \/ xdg_surface_destroy(w)
  \/ surface_destroy(w)
  \/ \E b \in Buffers \cup {NoBuffer} : surface_attach(w, b)
  \/ surface_frame(w)
  \/ surface_commit(w)

Next ==
  \/ \E w \in Windows : WindowRequest(w)
  \/ \E b \in Buffers : buffer_create(b) \/ buffer_destroy(b)
  \/ \E c \in Clients : connect(c) \/ disconnect(c) \/ meek_shell_bind(c)
  \/ meek_shell_announce_ready
  \/ meek_shell_destroy
  \/ page_flip

Spec == Init /\ [][Next]_vars

-----------------------------------------------------------------------------
(* Types. *)
TypeOK ==
  /\ connected \in SUBSET Clients
  /\ bound \in Clients \cup {NoClient}
  /\ announced \in BOOLEAN /\ ready \in BOOLEAN
  /\ buffer_id \in [Buffers -> 0 .. MaxBufferId]
  /\ next_buffer_id \in 1 .. MaxBufferId + 1
  /\ told \in [Handles -> Titles \cup {Untold}]
  /\ shown \in [Handles -> 0 .. MaxBufferId]
  /\ held \in SUBSET BufferIds
  /\ shell_owes_frame \in BOOLEAN
  /\ xdg \in [Windows -> XdgSurfaces]
  /\ toplevel \in [Windows -> Toplevels]
  /\ next_handle \in 1 .. MaxHandle + 1
  /\ surface \in [Windows ->
       [live : BOOLEAN, pending : Buffers \cup {NoBuffer},
        current : Buffers \cup {NoBuffer},
        last_forwarded : Buffers \cup {NoBuffer},
        forwarded_this_vblank : BOOLEAN, entered_output_sent : BOOLEAN,
        cbs_pending : 0 .. MaxCallbacks, cbs_current : 0 .. MaxCallbacks]]
  /\ buffer_live \in SUBSET Buffers
  /\ needs_frame \in BOOLEAN /\ waiting_flip \in BOOLEAN
  /\ current_bo \in Bos \cup {NoBo} /\ pending_bo \in Bos \cup {NoBo}
  /\ locked \in SUBSET Bos
  /\ drawn \in [Bos -> Buffers \cup {Fallback}]
  /\ scanout \in Buffers \cup {Fallback}
  /\ tex_program \in BOOLEAN
  /\ failures \in 0 .. MaxFailures /\ lost \in 0 .. MaxFailures

-----------------------------------------------------------------------------
(* The window list. *)

KnownHandles == {h \in Handles : told[h] # Untold}

(* A shell that has announced itself knows every live window of the other   *)
(* clients and its current title: over windows that come before the shell   *)
(* binds, between its bind and its announce_ready, and after, across shells *)
(* that die and are replaced.                                               *)
ShellKnowsEveryWindow ==
  ready =>
    \A w \in Windows :
      toplevel[w].live /\ toplevel[w].handle # 0
        => told[toplevel[w].handle] = toplevel[w].title

(* A replay that walks through a freed toplevel to its old handle.          *)
ReplaysFreed(h) ==
  /\ meek_shell_announce_ready
  /\ \E w \in Windows :
       HasToplevel(w) /\ ~toplevel[w].live /\ toplevel[w].handle = h

(* It knows no other window: a handle that no window has any more is taken  *)
(* back by the step with which the last one goes, and no later event, bind  *)
(* or replay brings it back; but for the replay that finds a toplevel freed *)
(* while its xdg_surface is still in the list.                              *)
ShellKnowsNoOtherWindow ==
  [][\A h \in KnownHandles' \ LiveHandles' :
       h \in KnownHandles \ LiveHandles \/ ReplaysFreed(h)]_vars

(* The bound shell is never shown its own windows, the ones it made before  *)
(* it was bound included: routing input to them would loop.                 *)
ShellNeverSeesItself ==
  bound # NoClient =>
    \A w \in WindowsOf(bound) : toplevel[w].live => toplevel[w].handle = 0

(* The shell's list is that of the others' windows: none of them is missing *)
(* from it, under an old title or for want of a replay, and none is its own.*)
ShellKnowsTheOthers == ShellKnowsEveryWindow /\ ShellNeverSeesItself

(* A handle names at most one live window: the shell keys its cards, its    *)
(* input routing and its kill requests by it.  Whatever order the objects   *)
(* of a window are destroyed in.                                            *)
HandleNamesOneWindow ==
  \A v, w \in Windows :
    /\ toplevel[v].live /\ toplevel[w].live
    /\ toplevel[v].handle # 0
    /\ toplevel[v].handle = toplevel[w].handle
    => v = w

(* A handle that is given out was never given out before, not even to a     *)
(* window that is long gone: a request of the shell that was on its way     *)
(* when the window died cannot reach another one.                           *)
HandlesAreFresh ==
  [][\A h \in LiveHandles' \ LiveHandles :
       h # 0 => next_handle <= h /\ h < next_handle']_vars

(* A toplevel waits for its one configure or has had it, never both and     *)
(* never neither: over the empty first commit, a wl_surface that dies first *)
(* and a role given late.                                                   *)
ConfiguredOnce ==
  \A w \in Windows :
    toplevel[w].live /\ HasToplevel(w)
      => (xdg[w].pending_configure <=> ~toplevel[w].configured)

-----------------------------------------------------------------------------
(* Buffers. *)

(* No surface, and no entry of the buffer cache, refers to a wl_buffer that *)
(* was destroyed: over attach, commit, the destruction of buffers attached  *)
(* or committed, of surfaces and of clients.                                *)
NoDanglingBuffer ==
  /\ \A w \in Windows :
       {surface[w].pending, surface[w].current} \subseteq buffer_live \cup {NoBuffer}
  /\ \A b \in Buffers : buffer_id[b] # 0 => b \in buffer_live

(* Each buffer id the shell holds is the id of exactly one live buffer, so  *)
(* the texture cached under it never outlives the buffer nor stands for     *)
(* another one.                                                             *)
HeldIdNamesOneBuffer ==
  \A id \in held :
    \E b \in buffer_live : \A c \in Buffers : buffer_id[c] = id <=> c = b

-----------------------------------------------------------------------------
(* Pacing.  The shell commits after it was sent a buffer of a window that   *)
(* is on screen, as it does with preview_max_fps = 0, its default; the      *)
(* kernel ends every flip it was asked for.                                 *)
ShellRedraws ==
  /\ shell_owes_frame
  /\ \E w \in Windows : owner[w] = bound /\ surface_commit(w)

Fairness == WF_vars(page_flip) /\ WF_vars(ShellRedraws)

ShellHasSurface == \E w \in Windows : owner[w] = bound /\ surface[w].live

(* A frame callback that is waiting when a buffer goes out to the shell is  *)
(* fired, or dies with its surface: app, shell and output pace each other   *)
(* through the forwarded buffer, the shell's commit and its page flip, as   *)
(* long as no import of the shell's image and no render fails.              *)
ForwardedFrameIsPaced ==
  \A w \in Windows :
    (surface[w].cbs_current > 0 /\ shell_owes_frame /\ ShellHasSurface)
      ~> (surface[w].cbs_current = 0 \/ ~ShellHasSurface
            \/ failures > 0 \/ lost > 0)

-----------------------------------------------------------------------------
(* What comments of the code and the protocol say and the code does not do. *)

(* meek_shell_v1.c, at the forwarders: "Before announce_ready we drop       *)
(* events on purpose".                                                      *)
SilentBeforeAnnounceReady ==
  [][bound # NoClient /\ bound' = bound /\ ~ready /\ ~ready'
       => UNCHANGED <<told, pixelsVars>>]_vars

(* meek_shell_v1.c, on_announce_ready: "the next commit by the client will  *)
(* fire toplevel_buffer naturally".                                         *)
NextCommitFiresBuffer ==
  [][\A w \in Windows :
       /\ surface_commit(w)
       /\ ready /\ toplevel[w].live /\ toplevel[w].handle # 0
       /\ surface[w].pending # NoBuffer
       /\ ~surface[w].forwarded_this_vblank
       => shown'[toplevel[w].handle] # 0]_vars

(* surface.c, on_commit: "for dmabuf, re-attaching the same wl_buffer means *)
(* the shell's cached EGLImage is still sampling the current GPU memory".   *)
SkippedBufferIsShown ==
  [][\A w \in Windows :
       /\ surface_commit(w)
       /\ ready /\ toplevel[w].live /\ toplevel[w].handle # 0
       /\ surface[w].pending # NoBuffer
       /\ surface[w].pending = surface[w].last_forwarded
       => shown'[toplevel[w].handle] \in held'
            /\ shown'[toplevel[w].handle] = buffer_id'[surface[w].pending]]_vars

(* meek_shell_v1.c, at replay_cb: "Called once per live non-shell toplevel  *)
(* during on_announce_ready."                                               *)
ReplayTellsLiveToplevels ==
  [][meek_shell_announce_ready =>
       \A h \in Handles : told'[h] # Untold => h \in LiveHandles]_vars

(* output_drm.c, on_page_flip: "if a client requested a callback, we owe it *)
(* the notification that the buffer it committed is on screen -- even if    *)
(* we're about to go idle."                                                 *)
CommittedCallbackFires ==
  \A w \in Windows :
    surface[w].cbs_current > 0 ~> surface[w].cbs_current = 0
=============================================================================
