# Verification of the meek-project

TLA+ models, TLC model checks and TLAPS proofs for `src/`: a Wayland
compositor (`meek-compositor`), the task-switcher shell it trusts
(`meek-shell`), and the UI toolkit the shell is drawn with (`meek-ui`).

Everything below is about the code of this repository at one commit. Where a
comment of the code and the code disagree, the models follow the code; section 4
lists those places.

## 1. The system

Three kinds of processes share one display:

```
   apps ──Wayland──▶ meek-compositor ──meek_shell_v1──▶ meek-shell ─▶ meek-ui
    ▲                     │   ▲                             │
    │  frame callbacks    ▼   │ page-flip events            │ commits, taps,
    └──────────────── surface/output_drm ◀──Wayland─────────┘ kill requests
```

The compositor is one thread around one `wl_event_loop`: every request, timer,
input event and DRM event is dispatched to the end before the next one. There
are no data races in it; the hazards are orders of dispatch, objects destroyed
in an order nobody wrote a test for, and loops that wait for each other. The
shell is a client like the others, except that it binds the private global
`meek_shell_v1`: it is told of the windows of every other client, is sent
their buffers as textures, draws the screen with them, and what *it* commits is
scanned out. The shell, and any other program drawn with meek-ui, is one thread
around `platform__tick` and `hot_reload__tick`; what runs beside it is the
GPU, which reads what the renderer wrote frames ago.

### Inventory

| Component | State | Operations | What makes it correct | Modelled |
|---|---|---|---|---|
| `xdg_shell.c` | list of xdg_surfaces, their toplevel pointer, role, owed configure; handle, title of each toplevel; next handle | get_xdg_surface, get_toplevel, get_popup, set_title, the destroy requests, on_commit, demote, replay, list walks | a handle names one window, ever; one configure per role; walks only meet live objects | XdgShell |
| `surface.c` | pending/current buffer, last forwarded buffer, per-vblank gate, frame callbacks | attach, frame, commit, destroy listeners, fire_frame_callbacks | no dangling buffer; every visible change reaches the shell; every callback fires | Surface |
| `meek_shell_v1.c` | bound slot, announced flag, wl_buffer→id cache; kill timers; touch and key routing | bind, destroy, announce_ready, the `fire_*` events, route_* and kill requests | the event stream gives the shell exactly the live windows; ids name live buffers; a touch ends; a kill hits what was asked for | MeekShellV1, Input |
| `output_drm.c` | needs_frame, waiting_flip, current and pending bo, scanout image | init, schedule_frame, render_and_present, on_page_flip, on_shell_commit | one flip at a time; only bos on screen locked; the last image reaches the panel | OutputDrm, OutputLoop |
| `main.c`, `globals.c` | the event loop, the other globals | dispatch, create_surface | composition of the above | Compositor |
| `seat.c`, `input.c`, `text_input_v3.c` | focused surface per keyboard, touches down, active text input | libinput events, get_keyboard, enter/leave, enable/disable | what a client was told agrees with what is kept; every down gets its up | Seat, Input |
| `linux_dmabuf.c` | plane fds of params and buffers, EGL images | add, create, create_immed, destroy | each fd is closed once, each image follows its buffer | DmaBuf, Programs |
| shell: `meek_shell_v1_client.c`, `toplevel_registry.c` | toplevel registry, LRU texture cache, cards, pending launch | event handlers, import, eviction | the registry is the fold of the stream; no texture leaks | ShellView, ShellClient |
| shell: `main.c`, `card_drag.c`, `gesture_recognizer.c` | foreground app, dragged card, one gesture slot | gestures, launch, fullscreen, the frame loop | what is shown is what has the focus; a touch has one meaning; every change is drawn | ShellTouch, Shell |
| `meek-ui`: scene, scene_input, widgets | widget tree; hovered, pressed, focused, overlay, keyboard pointers; canvas pixels | dispatch, removal, reconciliation | no pointer outlives its node; pixels have one owner | Scene |
| `meek-ui`: hot_reload | watches with hashes | tick, register | an edit that stays is loaded; what was typed survives | HotReload |
| `meek-ui`: scene_render, six renderers, font cache | batches, buffers per frame slot, clip stack, atlases | submit_*, push/pop_scissor, flush, begin/end_frame, eviction | every quad is drawn once, in order, under its clip, with its font | Renderer |
| `clib/clib_rwlock.c` | tickets, queue of waiters, recursion counts | read_lock, write_lock, unlock | mutual exclusion, FIFO order, no lost wakeup | RwLock, FifoLock |
| `fractional_scale.c`, `viewporter.c` | scale per surface, unused viewport | preferred_scale | arithmetic | no |
| `output_x11.c`, `egl_ctx.c` | nested window, its size, its render timer; the EGL context that imports need | init, timer, resize, shutdown | what a start that fails or a stop leaves is known | Host, Programs |
| rest of `clib/` | allocation book-keeping, wrappers of libc | | | no |
| shell: apps, icons, settings | parsed files | | | no |
| `meek-ui`: `platforms/*`, set-up and shutdown of `renderers/*` | a static record of handles each; page flips of the drm platform; size of window, viewport and target | init, tick, shutdown; resize; Android windows that come and go | every handle is released once; frames have the window's size; what the CRTC scans out is not drawn into | Device, Backends, Host |
| `meek-ui`: font and icon textures (`font.c`, `widget_image.c`) | the atlas of each font, the LRU icon cache with a budget, the image of a node | font__at, lookup, evict, a new context | every texture has one owner and is of the context that draws it | Textures |
| `meek-ui`: `parser_xml.c` | a lexer, the C stack of a recursive descent, the nodes allocated so far | load_ui, parse_element | a file gives its tree or none; each node is in the tree or freed once | Markup |
| `meek-ui`: `parser_style.c`, `scene_style.c` | a lexer; the table of rules; style slots per node and state | load_styles, register, clear, apply once a frame | a sheet gives its rules; half a sheet is refused; the last rule of the highest tier wins | StyleSheet |
| `meek-ui`: animator, translation of input events, glyph rasterisation | | decoding | | no |

### How the parts interact

* An app's `wl_surface.commit` (`surface.c`) asks `xdg_shell.c` for the handle
  of the surface and calls `meek_shell_v1__fire_toplevel_buffer`, which caches
  the buffer under an id and sends it to the shell; then the commit listener of
  `xdg_shell.c` runs and sends the configure that is owed.
* The shell's `wl_surface.commit` goes to `output_drm__on_shell_commit`, which
  imports the buffer and calls `output_drm__schedule_frame`.
* The kernel's flip event (`on_page_flip`) releases the previous bo, calls
  `globals__fire_frame_callbacks` in `surface.c` for *every* surface, which
  also reopens the forwarding gate, and renders again if `needs_frame` is set.
* `bind` of the shell calls `xdg_shell__demote_client_toplevels`;
  `announce_ready` calls `xdg_shell__foreach_toplevel_for_replay`.
* Destroy listeners: `surface.c` and `meek_shell_v1.c` each listen to the
  destruction of wl_buffers, `xdg_shell.c` to that of wl_surfaces.
* A touch reaches the shell twice, as `wl_touch` (`seat.c`) and raw
  (`meek_shell_v1__fire_touch_*`, from `input.c`); the shell routes taps and
  keys back to apps by handle, and asks for a process to be killed by handle.
* In the shell every event that changes what is visible must open the render
  gate of meek-ui's platform (`force_render`), or nothing is drawn.
* `scene_render.c` submits quads in tree order to the one renderer linked in;
  `font.c` creates and destroys the atlases that recorded draws refer to.

### What is hard

Client and shell crashes between any two steps; a shell that binds late, dies
and respawns while windows come and go; the three objects of a window destroyed
in any order; wl_buffers destroyed while attached, committed or cached, and
their address handed out again; a commit during a flip in flight; renders and
imports that fail half way; three parties that each wait for the next; a card
that is freed under the finger; a file saved between two reads of one reload, or
read when half of it is there; an allocation that fails deep in a recursion; a
vertex buffer that the GPU reads while the next frame is written; two readers
that upgrade. `PROJECT.json` lists these hazards at their lines, with the
property that would catch each, or why none does.

## 2. The modules

```
 the compositor
   OutputDrm ──────────────┐ INSTANCE (Images <- Buffers)
     ▲ EXTENDS             ▼
   OutputLoop ◁─ refines ─ Compositor ◀── MCWindows, MCPixels
     ▲                     │  ▲
   OutputLoop_proofs       │  Windows_proofs, Pixels_proofs
                           ▼ EXTENDS
                        Surface ─▶ XdgShell ─▶ MeekShellV1
   Seat ◀── Input ◀── MCInput          DmaBuf ◀── DmaBuf_proofs
              ▲
              Input_proofs
 the shell
   ShellView ◀── ShellClient ◀── ShellTouch ◀── Shell ◀── MCShell
                                                  ▲
                                                  Shell_proofs
 the toolkit
   Scene ◀── HotReload ◀── MCToolkit    Renderer ◀── MCRenderer
                ▲
                HotReload_proofs
   Markup, StyleSheet ◁─ INSTANCE ─ MCParsers
 programs and what they run on
   Device ◀── Backends ◀── Textures ◀── Host ◀── Programs ◀── MCPrograms
                                       DmaBuf ◀─────┘
 the library
   FifoLock ◁─ refines ─ RwLock ◀── RwLock_proofs
```

(`A ◀── B`: B EXTENDS A.)

**MeekShellV1** models the compositor's end of the private protocol. Its state
is `bound`, `announced`, the buffer cache (`buffer_id`, `next_buffer_id`) and
four *history* variables that the code does not have: `told`, `shown`, `held`
and `shell_owes_frame` fold the stream of events that the bound shell has been
sent into what a shell that reads all of it knows. A property of the window
list is thus a property of the stream. Every forwarder is guarded by
`Listening`, which is the code's test of `_bound` and `_announced`;
`resource_destroy` (`FreeSlot`) leaves `announced` alone, as the code does.

**XdgShell** has one record per window for the xdg_surface and one for the
toplevel. A *window* is a wl_surface with what was made from it. The code frees
a toplevel and leaves the pointer in its xdg_surface; `HandleRead` is what a
read through that pointer may yield: the old value, a cleared one, or the
handle of whichever toplevel lives now where malloc put it.

**Surface** has pending and current buffers, the forwarding gate and the frame
callbacks (counted). `Buffers` are *addresses*: `buffer_create` may bring a
destroyed one back, which is what makes comparisons by pointer interesting.

**OutputDrm** has the page-flip loop with its pool of bos. `RenderAndPresent` is
one disjunction: draw into a bo that is not locked, lock it and queue a flip, or
fail somewhere on the way and give back what was locked. Its initial state is the
one `output_drm__init` returns in: the mode was set with a first frame, the flip
of a second is in flight, and the shader that draws the shell's image was compiled
or, which is not fatal, was not (`tex_program`). **OutputLoop** closes it with an
arbitrary shell and the kernel.

**Compositor** composes them: one action per request or event, each with every
call across modules that the handler makes. `surface_commit` is the whole of
`on_commit`, the branch for the shell's surface (scanout) and for the others
(forwarding), and the listener of `xdg_shell.c` that runs after it; `disconnect`
is libwayland destroying all that a client owned. `Requests` and `Teardown`
select which optional requests the clients of an instance make, so that each
run explores one question in depth; they only remove behaviours of clients.
The order in which a client destroys the objects of a window is one of
`"together"` (toplevel, xdg_surface in one read, the usual case), `"split"`
(toplevel first, something in between), `"reversed"` (xdg_surface first, which
the code does not refuse) and `"surface_first"` (wl_surface before both).

**MCWindows** and **MCPixels** are the instances. MCPixels has a second initial
predicate, `SessionInit`: all clients connected, windows made, shell announced.
It is reachable from `Init` by the requests that every client makes at start-up
(create surface, xdg_surface, toplevel, buffers; bind, announce_ready), which
MCWindows explores from nothing; starting there keeps the state space for the
buffers.

**Seat** keeps, for each client, the surface its wl_keyboard is focused on (a
bare pointer in the code) and beside it, as a ghost, the surfaces the client
was *told* of by enter and leave. **Input** adds the panel's touches, of which
the shell is told twice, the keys that the shell routes to windows, the binding
and the announcement of shells, the two-second kill timers, and the processes
behind the clients, whose pids are reused. `credentials` is the pid that libwayland
read when the client connected, which a kill reads whether or not that process
still exists; a kill by the handle of a toplevel that was freed before its
xdg_surface reads the credentials of whichever client is found there
(`ClientsRead`).

**DmaBuf** has the fd table of the compositor. An fd is a number that the
kernel may hand out again, so closing one twice is visible as somebody else's
fd vanishing. Each failure path of `create` and `create_immed` is a disjunct.

**Device**, **Backends**, **Textures**, **Host** are layers of one record `h`, a
*world*. The set-up code of this repository fills a static record of handles one
by one and releases them one by one, so an object is named by the field that
holds its handle, and a function is a *program*: a sequence of steps, each of
which may fail and end the set-up there. `Run` gives the set of worlds a program
can lead to; `held` are the objects a field names, `lost` those that nothing
names any more. Backends has these programs for the six renderers, with the
pipelines that are only made when the first atlas or texture needs them.
Textures has the two caches that own textures. Host has the actions: a start, a
tick, a resize, a stop of each of the six platforms, and of the nested output of
the compositor (`output_x11.c` with `egl_ctx.c`); for Android also the window
that goes and comes back with a new GL context, for drm (`kms`) the page flip
that a frame waits for. **Programs** puts DmaBuf into the nested compositor,
where an import needs the context that Host made.

**ShellView**, **ShellClient**, **ShellTouch** are layers of one process: the
registry with what `main.c` puts on screen and the render gate; one operator per
event of the compositor, with the deck of cards and the texture cache; the two
views of a touch (press and click, gestures and card drag). `wl_touch.cancel`,
which the compositor sends when libinput does, reaches the first view only
(`TouchCancel`). **Shell** composes them behind a FIFO channel with the frames of
the main loop, and with the death and the respawn of the process, whose init runs
the replay before the view is loaded. Its compositor is a small environment with
the guarantees that Compositor is checked for: a handle names one window, an id
one live buffer, and an announced shell is told every open window.

**Scene** has the tree of widgets and, in one record `ui`, every pointer that the
code keeps outside it. An operator that may free a node through a pointer that
dangles returns the *set* of values `ui` may have next. What the host of the
toolkit may do at any event, and in every handler that it has, is one operator
(`Handled`): open one more popup, ask for the keyboard or hide it, switch the
automatic keyboard on or off. `asked`, `bared` and `short` say how a state came
about: the host asked for the keyboard itself, the overlay was given up since the
last layout, a resize has made the window larger than the bounds of the overlay. A
reload looks nodes up in a map with room for `MapCap` ids, by their `Hash`.
**HotReload** is the loop of a host over it, with a `.ui` and a `.style` file that
somebody saves at any moment, also between the three reads of one reload.

**Markup** is the load of a `.ui` file, token by token: a tag that can be read,
one whose attributes cannot (`broken`), a `<` without a name, a comment without
an end, text. What is at stake is not the text but who frees what, so `stack`
holds the active calls of `parse_element` that have a node, and the heap is
`kids` (the nodes allocated, with their children) and `frees` (how often each
was freed). An action is the way from one token, or one return, to the next; in
`Unwind` one caller after the other frees its own node. Any allocation may fail.
`scene__node_free`'s own work list is not modelled: it frees what is below a node.
HotReload takes what this module describes as one step (`Parsed`).

**StyleSheet** has the other load, and what the frames make of it. `list`, `at`
and `start` are the selectors of a rule and the position its block is read from
again for each of them; `blocks` are the active calls of `parse_block`. After an
unclosed comment the lexer stands at the last character of the file and the
callers go on with that character, which may be a `}`: `Skipped` and `LastOf` keep
this, since it decides what is registered. Which fields a rule passes on to a node
is `Sets`: a `Flagged` field if a `has_` flag tells that it is set, another when
it is positive, or `Signed` and not 0; a `Timed` field, an easing, only with a
duration of the same rule; an `Uncopied` one, a margin or an animation, never. The
transition of a named property (`named`) is stored, and ends the sheet.
`Preserved` are the slots that `apply_rules_to_node` saves around its `memset`,
`Driven` those that the program writes between frames. **MCParsers** has two
instances of StyleSheet and one of Markup: hot reload reads one file at a time, on
one thread, and the lexer is a local of the call, so that the three share its
variables and a behaviour is of one of them.

**Renderer** has the six backends in one module, because exactly one is linked
and they share an interface: four copy each batch into fresh driver memory
(opengl3, gles3, d3d11, d3d9), two append to a buffer of the frame's slot which
the GPU reads later (vulkan, d3d12). A flush cuts a batch into draws; `flying`
are the frames that the GPU may still read, and `Shown` reads *through* the
buffers and atlases as they are now, so that anything overwritten too early
shows. What was submitted is kept beside it (`asked`).

**RwLock** models `clib_rwlock.c`: one step is what a thread does while it has
the mutex. Waking is not the signal's doing alone: any sleeper may wake at any
time for no reason, and tests its condition again. **FifoLock** is what the
lock promises: modes of holding, and one line that is served in order.
`RwLock!Fifo` is the refinement mapping.

Operators whose name ends in a suffix such as `_Leak` are *mutants*: a
plausible bug in the definition they stand beside. They are used by no
specification; replacing the definition by its mutant must break the property
that `PROJECT.json` pairs it with.

## 3. The runs

| Run | Checks | What it shows | Instance |
|---|---|---|---|
| `windows` | ShellKnowsTheOthers, ShellKnowsNoOtherWindow, HandlesAreFresh | the window list of the shell has every live window of the others with its title, none of its own, and no dead one but by a replay through a freed toplevel, across crashes and respawns; a handle is given out once | one app with two interchangeable windows, two shells, one with a window of its own; 2 handles, 2 titles; popups; teardown together, split, surface first, the latter while no window has a title |
| `pixels` | NoDanglingBuffer, HeldIdNamesOneBuffer | no reference to a destroyed wl_buffer; the ids the shell holds name live buffers one to one, through reuse of addresses, failing forwards, and clients that die with their windows | one app window, one dmabuf, one shm buffer, 3 ids, DRM on |
| `pacing` | ForwardedFrameIsPaced | in the composition, the circle app → shell → flip → app does not stop | dmabuf, shell buffer, 1 callback per surface, a shell that may give up its role, one failing render or import |
| `outputloop` | LockedBosAreOnScreen, IdlePanelIsCurrent, ImportedImageReachesPanel | the flip loop on its own, with and without the shader for the shell's image | 3 bos, 2 images, 2 failures |
| `input` | EnteredIsFocused, TouchesEnd, KillHitsTheAsked, KilledAppDies | focus, touches and kills through clients and shells that come and go, processes that are gone before their connection, toplevels freed before their window, reused addresses and pids | 2 clients, 2 surface addresses, 1 text input, 1 slot, 2 handles, 2 pids, 1 timer per pid; sessions with keys, with touches, or with text inputs |
| `programs` | NothingIsSharedOrLeaks, NothingIsLeft, TexturesAreOwnedOnce, TheFrameIsShown | ownership of handles, textures, fds and images, from the start of each program to its stop, whichever call fails; sizes and page flips of what it draws | 11 builds of platform and renderer and the nested compositor; 1 failure; 2 contexts, sizes up to 2; 2 fonts for 1 atlas, 2 icons of which one fills the cache; 3 params (symmetric), 2 planes, 5 fds, 2 images |
| `shell` | RegistryFollowsStream | registry of the shell against the stream, over a full registry, evictions, failing imports, crashes | 3 handles for a registry of 2, 2 ids (one shm) for a cache of 1, 2 textures, 2 card addresses (both symmetric) |
| `shelltouch` | FullscreenShowsFocus, CardsMirrorRegistry, ScreenIsNeverStale, PressedNodeIsLive, NoTapAndDismiss | the view: cards, fullscreen, render gate, and a finger on them while windows close | 2 handles, 1 id, one finger that may stay, drag a card away or be cancelled |
| `toolkit` | PointersAreLive, ModalPopup, BlobsOwnedOnce, KeyboardServesFocus, EditingSurvives, EditsAreShown | widget pointers and hot reload: presses, keys, a host that opens popups and keyboards, saves at any moment | 6 contents of the `.ui` file, chosen so that widgets with state move, change type under their id, lose it, and vanish; trees of up to 3 nodes when the host adds one; a map of 2 ids, two that hash alike; 1 save |
| `parsers` | FreedExactlyOnce, TreeIsTheDocument, SheetMeansItsRules, WinnerIsDrawn | nodes are in the tree or freed once, whatever the file and wherever memory runs out; a well-formed file, and no other, gives the tree of its elements; a sheet without a named transition registers its rules, each list written out, up to the capacity of the table, and a truncated one is refused; precedence of rules and of what the program writes, over frames, writes and a reload | documents: every file of up to 4 tokens of all kinds, and of up to 6 opening, closing and empty tags, 2 names; sheets: every file of up to 4 tokens, every list of two selectors with up to 5 pieces of a sheet after it, a table of 2, lists of 2; cascade: sheets of two rules out of a type, a class and an id, and none, 2 nodes; a flagged and preserved field, a plain one, a duration with its easing, a margin; 2 loads |
| `painting` | EveryQuadIsPaintedOnce, ClippedAsSubmitted, PainterOrder, GlyphsShowTheirFont | all six renderers draw what was submitted, for as long as the GPU may read it | 4 calls over 3 frames, 3 pixels, 2 overlapping clips, 3 fonts (symmetric); every capacity is 2, so that each is exceeded |
| `rwlock` | WakeupsAreNotLost, ImplementsFifoLock, EveryoneGetsIn | the lock loses no wakeup, serves its line in order, and everyone gets in | 4 threads, 4 tickets (so that they wrap), nesting depth 2 |

Each property is stated in words above its definition. Some that deserve more:

* **ShellKnowsTheOthers / ShellKnowsNoOtherWindow**: folding the event stream
  gives an announced shell a list that has every live window of the others with
  its current title (ShellKnowsEveryWindow), none of its own
  (ShellNeverSeesItself), and nothing else. ShellKnowsNoOtherWindow excepts one
  step, the replay that walks through a freed toplevel to a handle
  (`ReplaysFreed`, section 4). **RegistryFollowsStream** is the other half: the
  shell's registry, once the channel is empty, is that list. A window that found
  no room in the registry is the only exception.
* **ForwardedFrameIsPaced**: a frame callback that waits when a buffer is sent
  to the shell fires, or its surface goes. It excepts runs in which an import
  or a render has failed.
* **IdlePanelIsCurrent**: no damage is lost between a commit
  and the idle loop. It excepts the state with no valid scanout image (a failed
  import leaves the panel as it was until the next commit) and a failed render.
* **NothingIsSharedOrLeaks**: each open fd has one holder, each EGL image one
  buffer, and what no client has any more is closed.
* **NothingIsLeft**: what a program that stopped, or failed to start, still
  holds is at most what section 4 names; and nothing else was ever dropped.
* **TheFrameIsShown**: after a frame, the window shows one of its own size, and
  the buffer that the CRTC scans out is never drawn into. It excepts what
  section 4 names.
* **EnteredIsFocused**: compares what a client was told with what the
  compositor's bare pointer says, although the address may be another surface's
  by now.
* **KillHitsTheAsked**: nothing in the code ties a pid to a process. The property
  names who may be hit besides the app that was asked for: a process that
  inherited the pid, before the request, when the app is gone and its
  connection still open, or within the two seconds; and the client read out of
  a freed toplevel. Anybody else is a `stray`.
* **ModalPopup**: any number of popups. It excepts the frames in which the overlay
  was given up and nothing has been laid out since, and the strip that a resize
  added (section 4).
* **KeyboardServesFocus**: of the keyboards that the host did not ask for itself.
  `meek-shell` asks for them when an app enables its text input.
* **ScreenIsNeverStale**: whenever what should be visible differs from the last
  frame, the gate is open.
* **EditingSurvives, EditsAreShown**: a reload at any moment keeps what was
  typed in an input that has an id, if the map of the reload has room for that
  id and no other hashes alike (`Found`); and what is finally in a file is finally
  loaded, unless the file changed between two reads of one reload (`torn`) or
  a broken style was loaded before.
* **FreedExactlyOnce**: a node that no active call and no caller answers for was
  freed once, one that somebody answers for was not: neither leak, nor double
  free, nor use after free, at every step of the unwinding.
* **TreeIsTheDocument, SheetMeansItsRules**: the reference counts, for each token,
  how many elements or blocks are open after it, and knows neither a stack nor a
  position. A copy of the block is registered for each selector, the nested blocks
  of a copy before it. A sheet with the transition of a named property is not
  claimed to be accepted (section 4). A sheet that stops too early is refused
  except where the value of an unknown property has swallowed what would show it,
  as the code skips to the next `;` or `}`.
* **WinnerIsDrawn**: whatever the slot held before, from an earlier sheet or
  from the program; for the fields that `overlay_style` copies (`Sets`), an easing
  being that of the rule whose duration wins.
* **EveryQuadIsPaintedOnce**: for frames within the buffers' limits; the frames
  *before* need not be, so a dropped quad may not corrupt a later frame.
* **ClippedAsSubmitted, PainterOrder**: except for a frame that nested clips
  deeper than the stack (see section 4).

The type invariants (TypeOK of Compositor, Shell and RwLock, OutputTypeOK,
InputTypeOK, DmaBufTypeOK, SceneTypeOK, RendererTypeOK, HostTypeOK, and TypeOK of
Markup and StyleSheet) are not in the configs, where every property answers a
question of its own; they hold in the same instances (add them as an `INVARIANT`
to check), and section 5 names those that are proved. FlipAwaitedIffQueued,
ConfiguredOnce and HandleNamesOneWindow are in no config either: they hold in the
instances of `outputloop` and `windows`, and are proved for all.

### Bounds, and why they are enough

* *windows*: two app windows are what it takes for a handle to be confused with
  another, for a removal to hit the wrong entry and for a freed toplevel to be
  overwritten by a live one; a third adds a symmetric copy. Two shells are needed
  because what one leaves behind (`announced`) meets the other. Titles and
  wl_surfaces that go first multiply the states, and set_title reads no wl_surface:
  the constraint `TitlesOrOrders` keeps them apart (311,335 states). The run omits
  `"reversed"` because ShellKnowsTheOthers needs that (section 5). The window
  properties are proved without bounds.
* *pixels*: the cache properties need one buffer of each kind and an id more
  than there are buffers, so that an address comes back with a new id.
* *outputloop*: gbm gives at least two bos; three let a free one be chosen.
  Proved for any number.
* *input*: two surfaces and two pids are the least for which an address or a pid
  can be another's; two clients let one be focused while the other dies, and
  inherit its pid. Keys, touches and text inputs share no state but windows and the
  shell, so that a session has one of the three, each with every kill and exit.
* *programs*: one failure visits every failure path of every set-up, since a set-up
  ends there; a second context is what stale textures are of; one atlas for two
  fonts and an icon that fills the cache make both caches evict; a size can
  become 0 (minimised) and change. Two planes make every partial failure of an
  import possible; three params with two planes each are one more than the five
  fds, so that the table fills up. 474,735 states.
* *shell, shelltouch*: one event in the channel is enough to put the channel's
  order against the shell's own steps, because the environment may send at any
  moment; a longer channel only delays the stream. The registry and the cache
  are one smaller than what there is to put in them. One finger, since
  `card_drag.c` follows finger 0 alone and the recognizer has one slot; a second
  one is what section 4 says of cancelled touches. Without cancels, `shelltouch`
  holds with two fingers, and is proved for any number (section 5). The crash of
  the shell is in `shell`, and in the proofs.
* *toolkit*: one save is two contents per file, hence one reload in full with
  everything before and after it (684,702 states). A tree of three nodes has the
  root and two popups, or a popup and a keyboard, beside each other. In the code the
  map has 256 ids: two are the least for which a third one, that of an input, finds
  no room, and two of the three ids hash alike.
* *parsers*: a behaviour reads a document, or a sheet, or a few sheets and what
  the frames make of them (1,287,624 states). Of a document, four tokens are a
  parent, a child with content and a closing tag, so that a failure may come at
  each point of a child while its parent waits; six tags are three elements, in
  every arrangement, also wrong ones. Of a sheet, a list of two selectors shows
  whether the second copy starts where the first did, five pieces have two rules
  with a nested block, and a table of two is full in the middle of a rule. Two
  nested pseudo-states are what no selector can name. The files leave out a
  pseudo-state right after a selector, which is part of the selector's own text.
  In the cascade two rules, one for each of two tiers or two of one, in both
  orders, are what precedence is about; one reload brings every pair of sheets
  together. The first rule has a duration that is positive or negative, with an
  easing; the second an easing alone.
* *painting*: with capacities of 2 and four calls, which may all fall into one
  frame, every buffer overflows and wraps within it; three frames because vulkan
  and d3d12 have two slots, the third reuses the first. Five calls hold on gles3,
  d3d9, d3d12 and vulkan (5.1 million states).
* *rwlock*: an upgrade and a surrender need two readers, FIFO order two more in
  the line; four tickets wrap and are the least that the assumption allows for
  four threads.
* Names starting with `Max` cap counters in the guards of the actions that
  increment them; the code's 32-bit counters and their wrap-around are modelled
  only where they can bite (tickets).
* `CHECK_DEADLOCK FALSE`: clients may stop making requests, users stop touching,
  and the caps end every behaviour. `outputloop`, `toolkit` and `rwlock` are
  checked for deadlock: the kernel always answers, a main loop goes on, and of
  the threads around a lock one can always take a step.
* No run with a liveness property uses symmetry.

### Fairness

* `pacing`, `outputloop`: `WF(page_flip)`, the kernel delivers an event for each
  flip it accepted, and the event loop dispatches it.
* `pacing`: `WF(ShellRedraws)`, a shell that was sent a buffer commits its own
  surface eventually: `meek_shell_v1_client.c` requests a redraw when a
  toplevel_buffer arrives, and ScreenIsNeverStale in `shelltouch` is the check
  that a redraw that is needed is requested. It does so for a window that is on
  screen (`meek_shell__handle_is_visible`: every window in the switcher, the
  focused one in fullscreen) and under the default `preview_max_fps = 0`. A
  buffer of a hidden window, or one that a positive `preview_max_fps` suppresses,
  requests no redraw, and its frame callback waits for somebody else's flip:
  the pacing properties speak of windows on screen only.
* `input`: weak fairness of the kill timer, which the event loop owns, and of
  the compositor's noticing that a killed process closed its socket. Nothing is
  assumed of the app: it may ignore the close request for ever.
* `toolkit`: the main loop does not stay at one place for ever (`Proceeds`, weak
  fairness), and every so often `hot_reload__tick` finds that its polling
  interval has passed (`Sweep`, strong fairness, because between two ticks it is
  not enabled). Users and editors may stop, and a save ends only if somebody
  ends it.
* `rwlock`: weak fairness of a signalled thread's waking, which pthreads
  guarantees. Nothing is assumed of callers or of spurious wakeups.
  EveryoneGetsIn carries its premise itself: nobody keeps the lock for ever.

No fairness is assumed of apps, and no run assumes that anybody reconnects.

## 4. Where comments and code disagree

**Stated in the modules, below the properties, each with the comment it comes
from.** They are false of the instance named and are in no config:

| Definition | The comment says | The code does | False of |
|---|---|---|---|
| SilentBeforeAnnounceReady | events before announce_ready are dropped | `announced` is never reset, so a second shell is sent events before its own announce_ready | MCWindows |
| ReplayTellsLiveToplevels | the replay is of live toplevels | a toplevel destroyed before its xdg_surface is replayed through a dangling pointer; the exception in ShellKnowsNoOtherWindow | MCWindows |
| NextCommitFiresBuffer | a respawned shell gets buffers with the next commits | `last_forwarded_buffer` outlives the shell: the dmabuf an app showed last is not sent to the new one | MCPixels |
| SkippedBufferIsShown | a buffer attached again is the one the shell samples | a destroyed wl_buffer's address that is reused passes for it | MCPixels |
| CommittedCallbackFires | a requested callback is owed | a commit that forwards nothing schedules nothing, and its callback waits for somebody else's flip | MCPixels |
| EveryWindowHasACard | the replay lets a respawned shell reconstruct its scene | the replay is dispatched before the view is loaded: the windows are registered and get no card | MCShell |
| CardShowsItsOwnWindow | a forgotten buffer's image is dropped | cards and entries keep the GL name of a texture that was evicted or destroyed, which the driver may give to another window's import | MCShell |
| DraggedCardIsLive | the drag's card is NULL if there is none | a card removed during the drag leaves the pointer | MCShell |
| KeyboardServesALiveTextInput | the active text input is cleared when its resource is destroyed | nothing clears it, and the shell is not told to hide its keyboard | MCInput |
| KeyboardIsLive | every file-scope slot that may point at a freed node is cleared | the slot of the virtual keyboard is not: hiding it later frees whichever node has its memory, up to the root | MCToolkit |
| NextChangeReparses | after a broken style the next change is parsed | a broken style clears the rules and keeps the old hash: going back to the content loaded before it is not seen as a change | MCToolkit, `MaxSaves = 2` |
| OpenSelectIsDrawn | an open select stays open over a reload | it stays `is_open` but loses the overlay, hence its list is not drawn | MCToolkit |
| DrawnAsSubmitted | submissions after a flush draw on top of what is there (`renderer.h:184`) | d3d12 draws the rects with whatever pipeline is bound, and leaves the text pipeline bound once it drew glyphs (`d3d12_renderer.c:721`): after a z-boundary that flushed text, the next rects are drawn as glyphs | MCRenderer, `Backends = {"d3d12"}` |
| ContentBehindIsBlocked | what is behind an open popup is blocked (`widget_popup.c:22-27`) | the popup that ends its closing animation clears the overlay (`widget_popup.c:189`) though another is open, and a select that was pressed before the popup came up takes it: until the next layout a press reaches what is behind. After a resize the bounds of the overlay are the old ones, and beside them nothing is blocked | MCToolkit |
| EveryEditSurvives | typing into an `<input>` survives a hot reload (`hot_reload.c`) | the map of a reconciliation has room for 256 ids, in the order of the tree, and finds a node by the hash of its id (`scene.c:481-513`): an input behind those, or behind an id that hashes alike, is made anew | MCToolkit |
| UnclosedIsNotRegistered | rules registered before an error are committed (`parser_style.c:66-72`) | when a nested block fails, the loop around it ends because `ok` is lost, and the code after it registers the outer rule with what was read so far (`parser_style.c:2083`, `:2123`) | Sheet of MCParsers |
| NamedTransitionIsAccepted | the transition of a named property is warned of but accepted, "not a hard error" (`parser_style.c:1252-1261`) | the warning is `error()`, which ends the parse: the sheet is refused, and what follows is not registered | Sheet of MCParsers |
| DeclaredIsDrawn | a margin is space around the element; an easing alone is useful when the duration comes from another rule | `overlay_style` copies no margin and no animation, and an easing only with a positive duration of the same rule (`scene_style.c:257-369`) | Cascade of MCParsers |
| RemovedRuleIsGone | a rule removed from the file is unregistered by the reload (`hot_reload.h:51`) | the table is cleared, but the fields that `apply_rules_to_node` carries over its `memset` for the program's sake (`scene_style.c:378-470`: background, gradient, opacity, size, visibility, display, position, insets), and every field while the table is empty, keep on live nodes what the rule had set | Cascade of MCParsers |

The other five backends bind a pipeline before each draw: with them in `Backends`
DrawnAsSubmitted holds. A load whose cut-off rule was registered still fails, so that in
HotReload's terms the file is read again at its next change.

With two fingers, `NoTapAndDismiss` and `ScreenIsNeverStale` are false of
MCShell as soon as touches are cancelled (`Fingers = {0, 1}`, `"cancel"` in
`Happens`): `wl_touch.cancel` ends a touch for meek-ui, with a click
(`platform_linux_wayland_client.c:1795`), but neither the recognizer nor the
card drag hears of it. The drag of a cancelled finger goes on, so that the next
touch, which another finger may have begun, can tap one card and dismiss
another. The recognizer and meek-ui come to follow
different fingers, so that a swipe may begin with a touch that meek-ui ignores,
and then no frame shows the switcher it opens.

More follow from the models without a definition of their own: a render that
fails inside `on_page_flip` is not retried, because the flip event that would
retry it was not queued (the exception in IdlePanelIsCurrent); if the shader that
draws the shell's image does not compile, which `output_drm.c:298` says is not fatal,
every frame is the gradient (`:818`) for as long as the compositor runs; a kill may hit
another process, since the pid is that of the connection and not of a process that
lives, and another client when the toplevel was freed before its xdg_surface
(`exposed` in Input); and an input that was emptied by hand has the text of the file
again after a reload.

**Met while reading, outside what the properties speak of.** They are recorded
for whoever changes that code:

* `clib_rwlock.h` promises that one unlock per lock call suffices; an upgrade
  turns *N* nested reads into one write (`clib_rwlock.c:349`), and a surrender
  gives reads up. RwLock models the code, so its callers unlock what they hold.
* gles3 skips the flush of a push or pop that leaves the effective clip
  unchanged, though `renderer.h` says that every push and pop flushes. Overlays,
  which rely on the flush, push at depth 0, where it is never skipped; hence
  PainterOrder holds. Its `scissor_last_valid` survives a frame that leaked a
  push.
* After an overflow of the clip stack, later pops of the same frame remove the
  wrong clip.
* vulkan has 128 atlas slots and d3d12 256 views shared with images, against a
  font cache of 256; the append backends hold 64 text runs per *frame*, not
  per flush as `renderer.h:25` says. Quads beyond that are dropped (`Roomy`).
* Comments at `destroy_atlas` in vulkan and d3d12 say that it happens at
  `font__shutdown`; the LRU evicts in the middle of frames.
* d3d9's reset does not release the image vertex buffer, after which
  a lost device stays lost; d3d9 and d3d11 upload the viewport constant only at
  the end of the frame or at an image.
* The time of a touch-up that follows its touch-down at once is moved up to 50 ms into
  the future (`meek_shell_v1.c:405`), so that a second tap within them begins
  before the first one ended, which is what the comment above it says clients
  discard; near the wrap of the 32-bit clock the comparison fails and the tap has
  no duration. Times are not modelled.
* `widget_image.c` may evict a texture that d3d12 has recorded in this frame.

**What programs leave, and what stops being shown.** The properties of the run
`programs` hold up to these, each of which is named in Host:

* the Wayland client does not release its wl_keyboard when it closes; on X11
  and drm a failed start leaves the EGL objects made before the failure; a
  renderer whose init fails, and on Android its shutdown, leaves the `cpu_verts`
  arrays;
* a set-up that is retried at the next atlas or image after it failed half way
  (d3d12's root signature and pipelines, vulkan's texture plumbing, the image
  pipelines) makes the first half again and drops the old one;
* Android keeps the icons and the image of the GL context it lost: they show
  nothing, or whatever the new context named alike, and are destroyed as such;
* the drm platform gives a wait for a flip up after a second and releases the
  buffer that is scanned out; the late event then writes to a variable of a
  stack frame that is gone;
* a d3d9 reset fails while the image vertex buffer is live, d3d12 never resizes,
  vulkan does not make an outdated swapchain again; and the render timer of
  `output_x11.c` is not armed again once the context could not be made current.

## 5. What is proved

All theorems are checked by TLAPS for every value of the constants, from the
named assumptions of the modules.

**OutputLoop_proofs.** The type invariant, the safety properties of the run
`outputloop`, and FlipAwaitedIffQueued. None of them is inductive alone:
`IdlePanelIsCurrent` speaks of an idle loop and is broken or kept by the flip
before it. The invariant `IInv` adds `UndamagedFlipIsCurrent` (a flip in flight
that no damage will follow carries the current image), which is what
`ScheduleFrame` maintains by setting `needs_frame` *before* looking at
`waiting_flip`, and `QueuedBoIsNotShown`, without which releasing `current_bo`
could unlock the queued bo. Each action has a lemma; `RenderAndPresentOutcome` is
shared by the two callers. Assumption: `OutputDrmAssumption`.

**Windows_proofs.** About the composed `Spec`:

1. `EveryStepIsAWindowStep`: each action of Compositor is one of a few window
   operations (`WindowNext`) or leaves `windowVars` alone. The rest argues
   about those only.
2. `WindowTypeCorrect`: the part of TypeOK about the shell's slot, the window
   list, xdg_surfaces, toplevels and handles.
3. `HandlesNameOneWindow`, `FreshHandles`: a step hands out `next_handle`, or
   nothing (`HandlesStep`), and every handle in use is below `next_handle`
   (`HandlesAreOld`). No hypothesis on how windows are destroyed.
4. `ShellNeverSeesItselfCorrect`, `ShellKnowsEveryWindowCorrect` and their
   conjunction `ShellKnowsTheOthersCorrect`: if no client
   destroys an xdg_surface before its toplevel, the condition under which the
   list walks of `xdg_shell.c` meet every live toplevel (`WalksFindToplevels`);
   the code does not enforce it. `ShellKnowsNoOtherWindowCorrect` has no
   hypothesis: in whatever order the objects go, only a replay that finds a freed
   toplevel gives the shell a handle that no window has. `SlotInv` (a client that
   does not listen has been told nothing) explains why the stale `announced`
   flag, which does break its comment, does not break the list.

Assumption: `MeekShellAssumption`.

**RwLock_proofs.** For any number of threads, any ticket width with a ticket for
each of them, any nesting depth (`RwLockAssumption`; with fewer tickets than
threads two waiters would share one). The invariant `IInv` is the conjunction of
six parts, because each of the properties needs all of the others:

* `TypeOK`; `QueueInv`, the *i*-th thread in the queue has ticket
  `serving_ticket + i - 1` modulo the width, no thread is in it twice, and
  `next_ticket` comes after the last: this is what makes the wrap-around
  harmless; `WriterInv`, recursion count, writer and readers agree; `WaitInv`,
  who waits holds nothing, who upgrades holds a read and there is one of them;
  `CountInv`, `num_readers` is the number of threads that hold a read; and
  `WakeupsAreNotLost` itself.
* `TypeCorrect`, `WritersAreAlone` (Exclusion) and `NoWakeupIsLost` follow.
  `CountInv` is where "the count is zero" turns into "nobody holds a read"; its
  lemmas are about cardinalities and use the library's theorems.
* `FifoRefinement`: `RwLock!Spec => Fifo!FifoSpec`. A first lock that is granted
  at once maps to `Enter`, one that queues to `Join`, a woken head to `Admit`,
  an upgrade to `Upgrade`, a surrender to `Join`, a last unlock to `Release`;
  nesting, signals, and spurious wakeups map to no step.

**Shell_proofs.** For any number of windows, titles, textures, events in flight,
for a registry and a deck of any size, and through crashes, failing imports and
cancelled touches. No hypothesis besides the named assumptions of ShellView,
ShellClient, ShellTouch and Shell:

* `RegistryFollowsStreamCorrect` speaks of an empty channel only, and is not
  inductive: what the shell will know once it read the rest must be carried along.
  `StreamInv` does that with nine parts that are about one handle each: an event
  names a handle that was given out (`EventsNameThings`), is announced first and
  removed last (`AnnouncedFirst`, `RemovedLast`, `AnnouncedIsNew`), an open window
  is known or about to be (`OpenIsKnown`), one that is gone is unknown or about to
  leave (`GoneIsLeaving`), and the last title on its way is the current one
  (`TitlesFollow`). The lemmas say what a step does to such a statement: send an
  event, handle the oldest, or neither.
* `CardsMirrorRegistryCorrect`, `FullscreenShowsFocusCorrect` and
  `PressedNodeIsLiveCorrect` need the types and that events name things
  (`EventsNameThings`): a late buffer for a window that is gone must
  not put it on screen.
* `NoTapAndDismissCorrect` and `ScreenIsNeverStaleCorrect` assume
  `CancelsAreAlone`: if touches are cancelled, the panel has one of them. It
  cannot be dropped (section 4). `TouchInv` says that meek-ui, the recognizer and
  the card drag follow the same finger; `GateInv` that a picture out of date
  has the gate open, and that what is *displayed* differs from what is wanted only
  while a frame is due, since the tick reasserts it in every frame.

**Pixels_proofs.** About Compositor's `Spec`: `NoDanglingBufferCorrect` and
`HeldIdsNameBuffers`, with address reuse, failing forwards and any order of
teardown. The second needs that cached ids are distinct (`IdsAreDistinct`), below
`next_buffer_id` (`NextIdIsFree`), that what the shell holds is cached
(`HeldIsCached`), and that a shell which is not told anything holds nothing
(`DeafShellHoldsNothing`): otherwise a destroyed buffer would leave the cache
without a `buffer_forgotten`. Each action of Compositor is first shown to
change one surface, one buffer or one client's things.
`OutputRefinement`, with DRM active: Compositor's `Spec` implements `OutputInit`
and `[][OutputNext]` of OutputLoop, whose images are the buffers. A commit of the
surface of a shell is one of its commits, `page_flip` one of its flips, and every
other action leaves the output alone; the safety theorems of OutputLoop_proofs
thus speak of the composition as well. Only its safety part: fairness is out of
the prover's reach.

**Windows_proofs**, besides: `ConfiguredOnceCorrect`, with no hypothesis on how
clients destroy things.

**Input_proofs.** `EnteredIsFocusedCorrect`, `TouchesEndCorrect`,
`KillsHitTheAsked`, for any clients, slots and pids. `TouchesEnd` is about the
touches that the shell's widgets follow: each has its finger on the panel, and
each was told to the recognizer too; the converse is false, since a cancel does
not reach the recognizer. Added to the properties: a shell that is not bound has
no touch; every connected client has credentials (`OwnersHavePids`); pids of
living processes are distinct; while a SIGKILL is pending for a pid, who has it
was asked to die, inherited it, or was read out of a freed toplevel. Assumptions:
`SeatAssumption`, `InputAssumption`.

**DmaBuf_proofs.** `ImportsAreOwnedOnce`, for any number of params, planes and
fds. FdsAreHeldOnce and ImagesFollowBuffers need the types and that params which
were not used made no buffer yet (`UnusedMadeNoBuffer`). `LowestIsLeast`, that the
kernel's lowest free fd exists, rests on the well-foundedness of `<`.

**HotReload_proofs.** About a program with hot reload, for any files, any number of
saves, and any gestures. The tree is a sequence in the order of a walk, so most
lemmas are about such sequences: what adding a child, removing a subtree or
replacing a node leaves (`AddedChild`, `RemovedTree`, `RemovedIs`,
`ChangedNode`), that a fresh name is fresh (`FreshIsFresh`), what a file
describes (`ParsedIs`), that each id has one donor and each donor one heir
(`DonorIsOne`, `HeirIsOne`), and what a reload moves (`TransferredIs`,
`ReconciledIs`). On them rest one lemma per operation (`SetFocusKeeps`,
`TypeKeeps`, `MouseDownKeeps`, `MouseUpKeeps`, `SelectUpKeeps`, `FrameKeeps`,
`FinalizeKeeps`, `HideKeeps`, `ReloadKeeps`, ...), and on those `NextSceneIsKept`.

* `ScenesAreTyped`, `PointersStayLive`, `BlobsStayOwned` have no hypothesis. Their
  inductive invariant `IInv` is SceneTypeOK with `SceneInv`: names are distinct,
  without which removing one subtree could free another's node; the four pointers
  are live; pixels have one owner; and the slot of the keyboard is a live node,
  none, or dangling, the last being what section 4 says of KeyboardIsLive.
* `TheKeyboardServes` assumes `FilesHaveNoKeyboard`. The registry would parse a
  `<keyboard>` in a file, but no file of the repository has one, and
  `widget_keyboard.c:14-20` names the two calls that show it, and both are in
  the specification. `KeyboardInv` adds that no keyboard is in the tree but the one
  the slot names, and that one is there for the focus or for the host.
* `ThePopupIsModal` has no hypothesis: any number of popups, from the file and from the
  host. `ModalInv` is that the overlay is a popup while one is on screen and the
  overlay was not given up since the last layout; `bared` is what every operation that
  gives it up, and a select's release that takes it, must record.
* `TheEditSurvives` (EditingSurvives) is an action property and needs `IInv` in the
  state before the reload. Any capacity of the map, any hash.

TLC checked `IInv`, `KeyboardInv` and `ModalInv` in the instance of `toolkit` before
they were proved. Assumptions: `SceneAssumption`, `HotReloadAssumption`.

**Only model-checked:**

* the liveness properties (ForwardedFrameIsPaced, ImportedImageReachesPanel,
  KilledAppDies, EditsAreShown, EveryoneGetsIn), since liveness under
  fairness is outside what TLAPS proves;
* the run `painting`: what is shown and what was asked for are concatenations and
  selections of sequences of draws, so that a proof about them is an induction
  over data, for which the provers have no rule. NothingIsLeft,
  TexturesAreOwnedOnce and TheFrameIsShown of `programs`, whose worlds come from
  folds over programs, and the run `parsers`, whose trees
  and rules come from folds and from recursive functions over a file, for the same
  reason. The instance of `programs` has all the programs there are.

## 6. What is not modelled

* **The other parsers** (desktop files, SVG, fonts, settings): functions of their
  input without state worth a model. Of the two that are modelled, the values of
  attributes and properties, the lengths of names and numbers, and the
  shorthands. **Layout, the resolved style of a visual state, glyph rasterisation
  and animation curves**: floating-point geometry.
* **The translation of input events on the other platforms**, the text of
  **shaders** and the **pixels** they compute.
* These groups make up most of the repository's lines, and most of what
  the definitions do not map. Modelling more of them would repeat the code
  instead of abstracting it.
* In the compositor: GL and EGL (failure of an import or a render *is* modelled,
  as a nondeterministic outcome), the debug upload of shm buffers; sizes, scales
  and coordinates, damage, regions, transforms; `app_id`, which travels with the
  title; protocol errors that end a client, which are `disconnect`;
  fractional_scale, viewporter; the times of touches and keys, and the taps that
  the shell routes to apps, which keep no state but those times; what the nested
  output paints, a solid colour.
* In the shell: a GL error after a successful import; the preview throttle when
  switched on.
* In meek-ui: characters that a host takes for itself
  (`scene__set_char_redirect`), visual states of nodes and press groups,
  scrolling, a second watch of one kind, the animator; the widgets that neither
  free nodes nor keep state others depend on. The demos ignore what
  `hot_reload__tick` returns; `Redraws = TRUE` is the shell, which does not.
* Loss or reordering of messages: Wayland is an ordered, reliable stream.
* `clib_rwlock.c` has no caller in the three programs. Each has a copy of it, and
  the copies differ in layout and comments only: the model is of the library as
  its header offers it. `memory_manager` and `stdlib` are allocation book-keeping
  and wrappers of libc.

## 7. What could follow

1. Proofs about Renderer: PainterOrder and ClippedAsSubmitted by an invariant that
   relates a batch to the tail of what was submitted, once concatenation can be
   reasoned about.
2. A compositor of two runs in one: the cards that `shell` sees and the buffers
   that `pixels` sends, in place of Shell's environment.
3. Markup and StyleSheet in the place of HotReload's `Parsed` and `Parses`, so that
   a half-saved file is one of the contents that a poll may read.
