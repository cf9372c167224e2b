-------------------------------- MODULE ShellView --------------------------------
(***************************************************************************)
(* meek-shell, the view: the toplevel registry (toplevel_registry.c), what *)
(* main.c puts on screen and the render gate of meek-ui's Wayland          *)
(* platform.  The shell is one thread; an operator here is what a function *)
(* does when a handler of ShellClient or ShellTouch calls it.              *)
(*                                                                         *)
(* A window is known by its handle; a texture is a GL name.  Geometry,     *)
(* styles and animation curves are left out: of a node only whether it is  *)
(* displayed, which window it stands for and what it samples is kept.      *)
(***************************************************************************)
EXTENDS Naturals, FiniteSets

CONSTANTS
  MaxHandle,      \* bound: handles the compositor gives out
  RegistryMax,    \* TOPLEVEL_REGISTRY_MAX
  Titles, Untitled,
  Textures, NoTexture,    \* GL texture names, and 0
  Cards, NoCard,          \* addresses a card node can get, and NULL
  Unregistered            \* a registry slot that is not in use

ASSUME ShellViewAssumption ==
  /\ MaxHandle \in Nat /\ RegistryMax \in Nat
  /\ Untitled \in Titles /\ NoTexture \notin Textures /\ NoCard \notin Cards

VARIABLES
  registry,     \* handle -> its entry
  focused,      \* the handle shown fullscreen, 0 for none
  app,          \* #fullscreen-app: the handle and texture it samples
  redirect,     \* the keyboard is up and its characters go to an app
  switcher,     \* task_switcher_visible
  launch,       \* a tapped launcher tile waits for its window
  anim,         \* the launch animation runs
  display,      \* style.display of the three views
  view,         \* display as the last rendered frame resolved it
  force_render, \* the next tick renders
  linger        \* the activity window after a forced frame is still open

viewVars == <<registry, focused, app, redirect, switcher, launch, anim, display,
              view, force_render, linger>>
navVars == <<focused, redirect, display>>
gateVars == <<force_render, linger>>

Handles == 1 .. MaxHandle
AnyTexture == Textures \cup {NoTexture}
Entries == [title : Titles, texture : AnyTexture, card : Cards \cup {NoCard}]
Registered == {h \in Handles : registry[h] # Unregistered}
Full == Cardinality(Registered) = RegistryMax
Views == [fullscreen : BOOLEAN, home : BOOLEAN, switcher : BOOLEAN]

(* A slot that is not in use holds no entry. *)
ASSUME UnregisteredAssumption == Unregistered \notin Entries

EmptyApp == [handle |-> 0, texture |-> NoTexture]

(* A new process: no window, nothing focused, the launcher on screen. *)
ViewInit ==
  /\ registry = [h \in Handles |-> Unregistered]
  /\ focused = 0 /\ app = EmptyApp /\ redirect = FALSE
  /\ switcher = FALSE /\ launch = FALSE /\ anim = FALSE
  /\ display = [fullscreen |-> FALSE, home |-> TRUE, switcher |-> FALSE]
  /\ view = display
  /\ force_render = TRUE /\ linger = TRUE

ViewStart ==
  /\ registry' = [h \in Handles |-> Unregistered]
  /\ focused' = 0 /\ app' = EmptyApp /\ redirect' = FALSE
  /\ switcher' = FALSE /\ launch' = FALSE /\ anim' = FALSE
  /\ display' = [fullscreen |-> FALSE, home |-> TRUE, switcher |-> FALSE]
  /\ view' = display'
  /\ force_render' = TRUE /\ linger' = TRUE

RequestRender == force_render' = TRUE

(* show_fullscreen for a handle that is in the registry. *)
ShowFullscreen(h, texture) ==
  /\ focused' = h
  /\ app' = [handle |-> h, texture |-> texture]
  /\ redirect' = TRUE
  /\ display' = [display EXCEPT !.fullscreen = TRUE, !.home = FALSE]

ShowSwitcher ==
  /\ focused' = 0
  /\ redirect' = FALSE
  /\ display' = [display EXCEPT !.fullscreen = FALSE, !.home = TRUE]

(* handle_is_visible; with preview_max_fps = 0, the default, it alone       *)
(* decides whether an update of a window wakes the render gate.             *)
Visible(h) == focused \in {0, h}
WakeFor(h) == force_render' = (force_render \/ Visible(h))

(* on_app_tile_tap, once the app was started: its window is to be promoted. *)
OnAppTileTap ==
  /\ launch' = TRUE /\ anim' = FALSE
  /\ app' = EmptyApp
  /\ UNCHANGED <<registry, navVars, switcher>>

OnTaskSwitcherBgTap ==
  /\ switcher' = FALSE
  /\ UNCHANGED <<registry, navVars, app, launch, anim>>

(* __process_window_tile_tap on the card of h. *)
OnTileTap(h) ==
  /\ IF h \in Registered THEN ShowFullscreen(h, registry[h].texture)
                         ELSE UNCHANGED <<navVars, app>>
  /\ UNCHANGED <<registry, switcher, launch, anim>>

(* on_swipe_up_bottom; a swipe out of an app is long and fast or it is not, *)
(* from the shell's own views it toggles the switcher.                      *)
OnSwipeUpBottom(long_fast, visible) ==
  /\ IF focused # 0 THEN ShowSwitcher /\ switcher' = ~long_fast
                    ELSE UNCHANGED navVars /\ switcher' = ~visible
  /\ UNCHANGED <<registry, app, launch, anim>>

-----------------------------------------------------------------------------
(* The main loop.  platform__tick renders unless nothing was forced and the *)
(* ten seconds of activity are over, which is long enough for one more      *)
(* frame after a forced one; then the loop reasserts what is displayed.     *)

Wanted(swiping) ==
  [fullscreen |-> focused # 0 \/ anim,
   home       |-> focused = 0,
   switcher   |-> IF focused # 0 THEN display.switcher ELSE switcher \/ swiping]

(* Mutant: the activity window is not reopened by a forced frame. *)
Rendered_NoLinger == view' = display /\ linger' = FALSE

Rendered == view' = display /\ linger' = force_render

Skipped == ~force_render /\ ~linger /\ UNCHANGED <<view, linger>>

(* The launch animation asks for the next frame until it is over.           *)
Reassert(swiping) ==
  /\ display' = Wanted(swiping)
  /\ IF anim THEN anim' \in BOOLEAN /\ RequestRender
             ELSE UNCHANGED anim /\ force_render' = FALSE

-----------------------------------------------------------------------------
ViewTypeOK ==
  /\ registry \in [Handles -> Entries \cup {Unregistered}]
  /\ focused \in 0 .. MaxHandle
  /\ app \in [handle : 0 .. MaxHandle, texture : AnyTexture]
  /\ redirect \in BOOLEAN /\ switcher \in BOOLEAN
  /\ launch \in BOOLEAN /\ anim \in BOOLEAN
  /\ display \in Views /\ view \in Views
  /\ force_render \in BOOLEAN /\ linger \in BOOLEAN
=============================================================================
