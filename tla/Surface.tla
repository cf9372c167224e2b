-------------------------------- MODULE Surface --------------------------------
(***************************************************************************)
(* wl_surface (meek-compositor/src/surface.c): double-buffered attach and  *)
(* commit, frame callbacks, and what a surface remembers of the buffers it *)
(* forwarded.  Buffers are addresses: one that was destroyed may come back *)
(* as the address of a new wl_buffer.                                      *)
(***************************************************************************)
EXTENDS XdgShell

CONSTANTS
  NoBuffer,     \* the NULL wl_buffer
  Shm,          \* the buffers made by wl_shm; the others are dmabufs
  maker,        \* the client of each buffer
  MaxCallbacks  \* bound: frame callbacks a surface has waiting

ASSUME SurfaceAssumption ==
  /\ NoBuffer \notin Buffers
  /\ Shm \subseteq Buffers
  /\ maker \in [Buffers -> Clients]
  /\ MaxCallbacks \in Nat

VARIABLES
  surface,      \* struct surface of each window
  buffer_live   \* the wl_buffers that exist

surfaceVars == <<surface, buffer_live>>

NoSurface ==
  [live |-> FALSE, pending |-> NoBuffer, current |-> NoBuffer,
   last_forwarded |-> NoBuffer, forwarded_this_vblank |-> FALSE,
   entered_output_sent |-> FALSE, cbs_pending |-> 0, cbs_current |-> 0]

SurfaceInit ==
  /\ surface = [w \in Windows |-> NoSurface]
  /\ buffer_live = {}

BuffersOf(c) == {b \in Buffers : maker[b] = c}

-----------------------------------------------------------------------------
(* surface__create *)
CreateSurface(w) ==
  /\ ~surface[w].live /\ ~xdg[w].listed /\ ~toplevel[w].live
  /\ surface' = [surface EXCEPT ![w] = [NoSurface EXCEPT !.live = TRUE]]

(* attach *)
Attach(w, b) ==
  /\ surface[w].live
  /\ surface' = [surface EXCEPT ![w].pending = b]

(* frame *)
Frame(w) ==
  /\ surface[w].live
  /\ surface[w].cbs_pending + surface[w].cbs_current < MaxCallbacks
  /\ surface' = [surface EXCEPT ![w].cbs_pending = @ + 1]

(* The first half of commit: the pending buffer, none included, and the     *)
(* pending callbacks become current, and the surface enters the output once.*)
Swapped(s) ==
  [s EXCEPT !.current = s.pending,
            !.pending = NoBuffer,
            !.cbs_current = @ + s.cbs_pending,
            !.cbs_pending = 0,
            !.entered_output_sent = @ \/ s.pending # NoBuffer]

(* The gate in front of the forwarding of a committed buffer: once per      *)
(* vblank, and a dmabuf only when it is not the one forwarded last.         *)
PassesGate(s) ==
  /\ s.current # NoBuffer
  /\ ~s.forwarded_this_vblank
  /\ s.current \in Shm \/ s.current # s.last_forwarded

(* What forwarding leaves behind, whether or not the event went out. *)
Forwarded(s) ==
  [s EXCEPT !.last_forwarded = s.current, !.forwarded_this_vblank = TRUE]

(* Mutant: nobody listens for the destruction of a pending buffer. *)
BufferGone_CurrentOnly(s, dead) ==
  [s EXCEPT !.current = IF @ \in dead THEN NoBuffer ELSE @,
            !.last_forwarded = IF s.current \in dead THEN NoBuffer ELSE @]

(* on_pending_buffer_destroy and on_current_buffer_destroy, for the buffers *)
(* in dead.                                                                 *)
BufferGone(s, dead) ==
  [s EXCEPT !.pending = IF @ \in dead THEN NoBuffer ELSE @,
            !.current = IF @ \in dead THEN NoBuffer ELSE @,
            !.last_forwarded = IF s.current \in dead THEN NoBuffer ELSE @]

(* surface__destroy_resource of ws, and the destruction of the buffers in   *)
(* dead: a destroyed surface takes its frame callbacks with it.             *)
SurfacesAndBuffersGone(ws, dead) ==
  /\ surface' = [w \in Windows |-> IF w \in ws THEN NoSurface
                                   ELSE BufferGone(surface[w], dead)]
  /\ buffer_live' = buffer_live \ dead

(* globals__fire_frame_callbacks: every current callback is done, and every *)
(* surface may forward again.                                               *)
FireFrameCallbacks ==
  surface' = [w \in Windows |->
                [surface[w] EXCEPT !.cbs_current = 0,
                                   !.forwarded_this_vblank = FALSE]]
=============================================================================
