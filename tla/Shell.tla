---------------------------------- MODULE Shell ----------------------------------
(***************************************************************************)
(* meek-shell, composed: the events of the compositor that arrive in order *)
(* on one connection, touches, the frames of the main loop, and the death  *)
(* and restart of the process.                                             *)
(*                                                                         *)
(* The compositor is what Compositor shows of it: a handle names one       *)
(* window for ever and a buffer id one buffer, and a shell that announces  *)
(* itself is told every open window.                                       *)
(***************************************************************************)
EXTENDS ShellTouch

CONSTANTS
  MaxChan,        \* bound: events on their way to the shell
  ImportFails,    \* whether the import of a buffer may fail
  ShmIds,         \* the buffer ids given to shm buffers
  Closed,         \* no window has the handle any more, or has it yet
  Happens         \* bound: "retitle", "ime", "crash", "cancel" may or not

ASSUME ShellAssumption ==
  /\ MaxChan \in Nat /\ ImportFails \in BOOLEAN /\ ShmIds \subseteq Nat
  /\ Closed \notin Titles

VARIABLES
  open,           \* handle -> title of the open window, or Closed
  next_handle,
  buffers,        \* buffer id -> the window whose live buffer has it, or 0
  next_id,
  chan,           \* events to the shell, in order
  phase,          \* "down", "starting": main has not reached its loop, "running"
  dropped,        \* ghost: windows whose toplevel_added found no room
  dirty           \* ghost: what should be on screen is not what was rendered

envVars == <<open, next_handle, buffers, next_id>>
shellVars == <<viewVars, clientVars, touchVars>>
vars == <<envVars, chan, phase, dropped, dirty, shellVars>>

Up == phase # "down"
Running == phase = "running"
OpenHandles == {h \in Handles : open[h] # Closed}

Event(type, h, t, id) == [type |-> type, handle |-> h, title |-> t, id |-> id]
Added(h, t) == Event("added", h, t, 0)
Synced == Event("synced", 0, Untitled, 0)

ShellStart == ViewStart /\ ClientStart /\ TouchStart

Init ==
  /\ open = [h \in Handles |-> Closed] /\ next_handle = 1
  /\ buffers = [id \in BufferIds |-> 0] /\ next_id = 1
  /\ chan = <<>> /\ phase = "down" /\ dropped = {} /\ dirty = FALSE
  /\ ViewInit /\ ClientInit /\ TouchInit

-----------------------------------------------------------------------------
(* The compositor's side. *)

(* An event is sent to the shell that is bound; without one it is not.      *)
Send(event) ==
  /\ Len(chan) < MaxChan
  /\ chan' = IF Up THEN Append(chan, event) ELSE chan
  /\ UNCHANGED <<phase, dropped, dirty, shellVars>>

WindowOpens(t) ==
  /\ next_handle <= MaxHandle
  /\ open' = [open EXCEPT ![next_handle] = t]
  /\ next_handle' = next_handle + 1
  /\ Send(Added(next_handle, t))
  /\ UNCHANGED <<buffers, next_id>>

WindowRetitled(h, t) ==
  /\ "retitle" \in Happens
  /\ h \in OpenHandles /\ open[h] # t
  /\ open' = [open EXCEPT ![h] = t]
  /\ Send(Event("title", h, t, 0))
  /\ UNCHANGED <<next_handle, buffers, next_id>>

WindowCloses(h) ==
  /\ h \in OpenHandles
  /\ open' = [open EXCEPT ![h] = Closed]
  /\ Send(Event("removed", h, Untitled, 0))
  /\ UNCHANGED <<next_handle, buffers, next_id>>

(* A commit of a buffer the window has shown before, or of a new one.       *)
WindowCommits(h) ==
  /\ h \in OpenHandles
  /\ \E id \in {i \in BufferIds : buffers[i] = h} \cup ({next_id} \cap BufferIds) :
       /\ buffers' = [buffers EXCEPT ![id] = h]
       /\ next_id' = IF id = next_id THEN id + 1 ELSE next_id
       /\ Send(Event(IF id \in ShmIds THEN "buffer_shm" ELSE "buffer", h, Untitled, id))
  /\ UNCHANGED <<open, next_handle>>

(* wl_buffers die on their own, before or after their window.               *)
BufferDestroyed(id) ==
  /\ buffers[id] # 0
  /\ buffers' = [buffers EXCEPT ![id] = 0]
  /\ Send(Event("forgotten", 0, Untitled, id))
  /\ UNCHANGED <<open, next_handle, next_id>>

ImeRequested(on) ==
  /\ "ime" \in Happens
  /\ Send(Event(IF on THEN "ime_on" ELSE "ime_off", 0, Untitled, 0))
  /\ UNCHANGED envVars

-----------------------------------------------------------------------------
(* The shell process. *)

(* meek_shell_v1_client__init: bind and announce_ready go out together in   *)
(* the first roundtrip, and the second one is over when every event of the  *)
(* replay was dispatched.                                                   *)
ShellStarts ==
  /\ phase = "down"
  /\ phase' = "starting"
  /\ \E order \in SetToSeqs(OpenHandles) :
       chan' = Append([i \in DOMAIN order |-> Added(order[i], open[order[i]])], Synced)
  /\ dirty' = TRUE
  /\ UNCHANGED <<envVars, dropped, shellVars>>

ShellDies ==
  /\ Up /\ "crash" \in Happens
  /\ phase' = "down"
  /\ chan' = <<>>
  /\ dropped' = {} /\ dirty' = FALSE
  /\ ShellStart
  /\ UNCHANGED envVars

(* The roundtrip returns and main loads shell.ui.                           *)
SceneLoads ==
  /\ chan # <<>> /\ Head(chan) = Synced
  /\ chan' = Tail(chan)
  /\ scene' = TRUE /\ phase' = "running"
  /\ UNCHANGED <<envVars, dropped, viewVars, deck, textureVars, touchVars>>

Handle(m) ==
  \/ m.type = "added" /\ OnToplevelAdded(m.handle, m.title)
  \/ m.type = "title" /\ OnToplevelTitleChanged(m.handle, m.title)
  \/ m.type = "removed" /\ OnToplevelRemoved(m.handle)
  \/ m.type = "buffer" /\ OnToplevelBuffer(m.handle, m.id, ImportFails)
  \/ m.type = "buffer_shm" /\ OnToplevelBufferShm(m.handle, m.id, ImportFails)
  \/ m.type = "forgotten" /\ OnBufferForgotten(m.id)
  \/ m.type = "ime_on" /\ OnImeRequest(TRUE)
  \/ m.type = "ime_off" /\ OnImeRequest(FALSE)

EventArrives ==
  /\ chan # <<>> /\ Head(chan) # Synced
  /\ Handle(Head(chan))
  /\ NodesFreed
  /\ chan' = Tail(chan)
  /\ dropped' = IF Head(chan).type = "added" /\ registry' = registry
                THEN dropped \cup {Head(chan).handle} ELSE dropped
  /\ UNCHANGED <<envVars, phase>>

Touched ==
  /\ Running
  /\ \E f \in Fingers :
       \/ \E n \in Nodes, bottom \in BOOLEAN : TouchDown(f, n, bottom)
       \/ \E move \in Moves : TouchMotion(f, move)
       \/ TouchUp(f)
       \/ "cancel" \in Happens /\ TouchCancel
  /\ UNCHANGED <<envVars, chan, phase, dropped>>

(* platform__tick, then the rest of the loop's body. *)
Tick ==
  /\ Running
  /\ Rendered \/ Skipped
  /\ Reassert(SwipeInProgress)
  /\ UNCHANGED <<envVars, chan, phase, dropped, registry, focused, app, redirect,
                 switcher, launch, clientVars, touchVars>>

-----------------------------------------------------------------------------
(* What should be on the screen. *)
Picture ==
  LET shown == Wanted(SwipeInProgress)
  IN [fullscreen |-> IF shown.fullscreen THEN <<app.texture, redirect>> ELSE <<>>,
      home |-> shown.home,
      switcher |-> IF shown.home /\ shown.switcher
                   THEN {<<c, deck[c]>> : c \in InDeck} ELSE {}]

Shown(d) == <<d.fullscreen, d.home, d.home /\ d.switcher>>

Frame ==
  /\ Tick
  /\ dirty' = IF Skipped THEN dirty ELSE Shown(view') # Shown(Wanted(SwipeInProgress))

Environment ==
  \/ \E t \in Titles : WindowOpens(t) \/ \E h \in Handles : WindowRetitled(h, t)
  \/ \E h \in Handles : WindowCloses(h) \/ WindowCommits(h)
  \/ \E id \in BufferIds : BufferDestroyed(id)
  \/ \E on \in BOOLEAN : ImeRequested(on)

Next ==
  \/ Environment
  \/ ShellStarts
  \/ ShellDies
  \/ (SceneLoads \/ EventArrives \/ Touched) /\ dirty' = (dirty \/ Picture' # Picture)
  \/ Frame

Spec == Init /\ [][Next]_vars

-----------------------------------------------------------------------------
TypeOK ==
  /\ ViewTypeOK /\ ClientTypeOK /\ TouchTypeOK
  /\ open \in [Handles -> Titles \cup {Closed}] /\ next_handle \in 1 .. MaxHandle + 1
  /\ buffers \in [BufferIds -> 0 .. MaxHandle] /\ next_id \in 1 .. MaxBufferId + 1
  /\ chan \in Seq([type : {"added", "title", "removed", "buffer", "buffer_shm",
                           "forgotten", "ime_on", "ime_off", "synced"},
                   handle : 0 .. MaxHandle, title : Titles, id : 0 .. MaxBufferId])
  /\ phase \in {"down", "starting", "running"}
  /\ dropped \in SUBSET Handles /\ dirty \in BOOLEAN

(* When everything sent has arrived, the registry holds the open windows    *)
(* with their titles and no other, over a full registry, windows added on   *)
(* the fly by a late buffer, and restarts; a window that found no room is   *)
(* the only one that may be missing or nameless.                            *)
RegistryFollowsStream ==
  Up /\ chan = <<>> =>
    /\ Registered \subseteq OpenHandles
    /\ \A h \in OpenHandles \ dropped :
         h \in Registered /\ registry[h].title = open[h]

(* The cards of the switcher and the registry agree: an entry's card is in  *)
(* the deck and shows that window, its title and its texture, and there is  *)
(* no card without its entry.                                               *)
CardsMirrorRegistry ==
  /\ \A h \in Registered :
       LET e == registry[h]
       IN e.card # NoCard =>
            deck[e.card] = [handle |-> h, label |-> e.title, texture |-> e.texture]
  /\ \A c \in InDeck :
       deck[c].handle \in Registered /\ registry[deck[c].handle].card = c

(* The window shown fullscreen, to which the keyboard goes, is one the      *)
(* shell still knows, and what #fullscreen-app samples and routes taps to   *)
(* is that window's or nothing: over windows that close while shown, taps   *)
(* that raced the view, launches and swipes.                                *)
FullscreenShowsFocus ==
  focused # 0 =>
    /\ focused \in Registered
    /\ app.handle \in {0, focused}
    /\ app.texture \in {NoTexture, registry[focused].texture}

(* Whenever what should be on the screen differs from the last frame,       *)
(* another frame is due: no handler changes what is visible without waking  *)
(* the render gate.                                                         *)
ScreenIsNeverStale == Running /\ dirty => force_render \/ linger

(* The node meek-ui believes pressed is in the tree: a card that is freed   *)
(* under the finger is never sent a click.                                  *)
PressedNodeIsLive == pressed \in Cards => pressed \in InDeck

(* One touch does not both open a window and kill it.                       *)
NoTapAndDismiss == both = {}

-----------------------------------------------------------------------------
(* What comments of the code and the protocol say and the code does not do. *)

(* meek-shell-v1.xml, toplevel_added: after a crash and a respawn the       *)
(* compositor replays it for every toplevel "so the new shell can           *)
(* reconstruct its scene".                                                  *)
EveryWindowHasACard ==
  Running => \A h \in Registered \ dropped : registry[h].card # NoCard

(* meek_shell_v1_client.c, on_buffer_forgotten: a redraw is needed "to drop *)
(* the stale image (or fall back to a placeholder)".                        *)
CardShowsItsOwnWindow ==
  \A c \in InDeck :
    deck[c].texture # NoTexture => gl[deck[c].texture] \in {0, deck[c].handle}

(* card_drag.c, at the state's card: "NULL if the touch didn't land on a    *)
(* card."                                                                   *)
DraggedCardIsLive ==
  drag.card # NoCard =>
    drag.card \in InDeck /\ deck[drag.card].handle = drag.handle
=============================================================================
