---------------------------------- MODULE Host ---------------------------------
(***************************************************************************)
(* What a meek-ui program is hosted by: the platform files, linked with    *)
(* one of the six renderers, from platform__init to platform__shutdown,    *)
(* with every call that can fail on the way; and the nested output of      *)
(* meek-compositor, egl_ctx.c and output_x11.c, which is built the same    *)
(* way.                                                                    *)
(*                                                                         *)
(* h is the world of Device, Backends and Textures with these fields       *)
(* besides: plat and api; app, the program's life; view, the viewport that *)
(* the platform passes to the renderer; target, the size of what the       *)
(* renderer draws to; shown, the size of the last frame; halted, a         *)
(* renderer that draws no more; and, where they apply, kms, the scanout of *)
(* the drm platform, and armed, the render timer of the compositor.        *)
(***************************************************************************)
EXTENDS Textures

CONSTANTS
  Builds,        \* the pairs of platform and renderer
  Capabilities,  \* what a wl_seat announces, each a set of devices
  MaxContexts,   \* bound: renderers that a process brings up
  MaxSize        \* bound: size of a window

ASSUME HostAssumption ==
  /\ Builds \subseteq [plat : STRING, api : STRING]
  /\ Capabilities \subseteq SUBSET {"pointer", "touch", "keyboard"}
  /\ MaxContexts \in Nat \ {0} /\ MaxSize \in Nat \ {0}

VARIABLE h

Sizes == 0 .. MaxSize
AtLeastOne(n) == IF n = 0 THEN 1 ELSE n
Bos == 1 .. 3
NoBo == 0
NoKms == [set |-> FALSE, locked |-> NoBo, screen |-> NoBo, flip |-> NoBo,
          unread |-> FALSE, late |-> FALSE]

HostInit ==
  \E b \in Builds :
    h = [plat |-> b.plat, api |-> b.api, app |-> "off", held |-> {}, lost |-> {}, ok |-> TRUE,
         fails |-> 0, ctx |-> 0, made |-> 0, built |-> FALSE, live |-> 0, tex |-> 0,
         fonts |-> <<>>, icons |-> <<>>, image |-> 0,
         view |-> 1, target |-> 1, shown |-> 0, halted |-> FALSE,
         kms |-> NoKms, armed |-> FALSE]

CachesDropped(w) == UNION {FontShutdown(v) : v \in CacheShutdown(w)}

-----------------------------------------------------------------------------
(* platform_win32.c.                                                       *)

Win32RegisterClass == Get({"window_class"})

Win32Init(w) ==
  LET window == Try(Run({w}, Win32RegisterClass), Get({"hwnd"}),
                    LAMBDA v : Without(v, {"window_class"}))
  IN  OrUndo(window, RendererInit,
             LAMBDA v : Without(RendererShutdown(v), {"window_class", "hwnd"}))

Win32Shutdown(w) ==
  {Without(RendererShutdown(v), {"window_class", "hwnd"}) : v \in CachesDropped(w)}

-----------------------------------------------------------------------------
(* platform_linux_x11.c.                                                   *)

X11OpenDisplayAndWindow(w) ==
  Then(Try(Run({w}, Get({"display"})), Get({"window"}), LAMBDA v : Without(v, {"display"})),
       LAMBDA v : {v} \cup Run({v}, Gen({"im"}) \o Maybe({"ic"})))

X11CloseDisplayAndWindow(w) == Without(w, {"ic", "im", "window", "display"})

X11InitEgl(w) ==
  Run(Try(Run({w}, Get({"egl_display"}) \o Check \o Get({"egl_context"})),
          Get({"egl_surface"}), LAMBDA v : Without(v, {"egl_context"})),
      Check)

X11TermEgl(w) == ContextGone(Without(w, {"egl_surface", "egl_display"}), "egl_context")

X11Init(w) ==
  OrUndo(OrUndo(X11OpenDisplayAndWindow(w), X11InitEgl, X11CloseDisplayAndWindow),
         RendererInit, LAMBDA v : X11CloseDisplayAndWindow(X11TermEgl(v)))

X11Shutdown(w) ==
  {X11CloseDisplayAndWindow(X11TermEgl(RendererShutdown(v))) : v \in CachesDropped(w)}

-----------------------------------------------------------------------------
(* platform_linux_wayland_client.c.  Of each global there is one.          *)

SeatCapabilities(w, caps) ==
  LET had == w.held \cap {"pointer", "touch", "keyboard"}
  IN  Without(Created(w, caps \ had), had \ caps)

(* on_registry_global, for what the display server may have or not.        *)
WaylandGlobals(w) ==
  Then(Run({w}, Gen({"output"}) \o Maybe({"idle_inhibit_manager"})),
       LAMBDA v : {v} \cup {SeatCapabilities(Created(v, {"seat"}), caps) : caps \in Capabilities})

WaylandOpenDisplay(w) ==
  Run(Then(Run({w}, Get({"display"}) \o Gen({"registry"})), WaylandGlobals), Check)

WaylandBindGlobals == Get({"compositor"}) \o Get({"wm_base"})

WaylandMakeToplevel(w) ==
  LET toplevel == Run({w}, Get({"wl_surface"}) \o Get({"xdg_surface"}) \o Get({"xdg_toplevel"}))
      inhibited(v) == IF "idle_inhibit_manager" \in v.held
                      THEN Run({v}, Maybe({"idle_inhibitor"})) ELSE {v}
  IN  Run(Then(toplevel, inhibited), Check)

WaylandInitEgl ==
  Get({"egl_display"}) \o Check \o Get({"egl_context"}) \o Get({"egl_window"})
    \o Get({"egl_surface"}) \o Check

WaylandTermEgl(w) ==
  ContextGone(Without(w, {"egl_surface", "egl_display", "egl_window"}), "egl_context")

(* The keyboard is not released.                                           *)
WaylandCloseDisplay(w) ==
  Without(w, {"idle_inhibitor", "idle_inhibit_manager", "pointer", "touch", "seat",
              "xdg_toplevel", "xdg_surface", "wl_surface", "output", "wm_base",
              "compositor", "registry", "display"})

WaylandInit(w) ==
  LET surface(v) == Then(Run(WaylandOpenDisplay(v), WaylandBindGlobals), WaylandMakeToplevel)
      up(v) == Then(Run(surface(v), WaylandInitEgl), RendererInit)
  IN  OrUndo({w}, up, LAMBDA v : WaylandCloseDisplay(WaylandTermEgl(v)))

WaylandShutdown(w) ==
  {WaylandCloseDisplay(WaylandTermEgl(RendererShutdown(v))) : v \in CachesDropped(w)}

-----------------------------------------------------------------------------
(* platform_linux_drm.c.  A GBM surface has three buffers; kms says which  *)
(* one is locked, which one the CRTC scans out, which one a page flip is   *)
(* pending to, whether the event of an earlier flip waits to be read, and  *)
(* whether a wait for an event was ever given up.                          *)

(* The first card that can be driven is taken.                             *)
DrmTryCard == Get({"drm_fd", "saved_crtc"})
DrmOpenDrm(w) == Run({w}, DrmTryCard)
DrmOpenInput(w) == Run({w}, Maybe({"inputs"}))

DrmCloseDrm(w) == [Without(w, {"saved_crtc", "drm_fd"}) EXCEPT !.kms = NoKms]

DrmInitGbm(w) ==
  Try(Run({w}, Get({"gbm_dev"})), Get({"gbm_surface"}), LAMBDA v : Without(v, {"gbm_dev"}))

DrmInitGbmEgl(w) ==
  LET egl == Try(Run(DrmInitGbm(w), Get({"egl_display"}) \o Check \o Get({"egl_context"})),
                 Get({"egl_surface"}), LAMBDA v : Without(v, {"egl_context"}))
  IN  Run(egl, Check)

DrmTermGbmEgl(w) ==
  LET v == [w EXCEPT !.kms.locked = NoBo]
  IN  ContextGone(Without(v, {"egl_surface", "egl_display", "gbm_surface", "gbm_dev"}),
                  "egl_context")

DrmInit(w) ==
  LET egl == OrUndo(DrmOpenDrm(w), DrmInitGbmEgl, DrmCloseDrm)
  IN  Then(OrUndo(egl, RendererInit, LAMBDA v : DrmCloseDrm(DrmTermGbmEgl(v))), DrmOpenInput)

DrmShutdown(w) ==
  {DrmCloseDrm(DrmTermGbmEgl(Without(RendererShutdown(v), {"inputs"}))) : v \in CachesDropped(w)}

DrmFirstFrame(w, next) ==
  Fine(Failed(w)) \cup
  {[w EXCEPT !.kms.set = TRUE, !.kms.locked = next, !.kms.screen = next]}

(* The wait ends with the event of the flip, after a second, or with the   *)
(* event of an earlier flip, whose handler writes to the stack of the      *)
(* frame that waited for it: it may end this wait, or do harm, or neither. *)
DrmFlipAwaited(w, next) ==
  LET flipped == [w EXCEPT !.kms.screen = next, !.kms.flip = NoBo]
      gaveUp == {[v EXCEPT !.kms.late = TRUE] : v \in Fine(Failed(w))}
      early == IF w.kms.unread THEN {w, [w EXCEPT !.app = "crashed"]} ELSE {}
  IN  {[v EXCEPT !.kms.locked = next, !.kms.unread = FALSE] : v \in {flipped} \cup gaveUp \cup early}

(* Mutant: a flip that the kernel refuses is taken for one that is done.   *)
DrmPageFlip_Unchecked(w, next) ==
  {[v EXCEPT !.kms.locked = next] : v \in Fine(Failed(w))}
    \cup IF w.kms.flip # NoBo THEN {w}
         ELSE DrmFlipAwaited([w EXCEPT !.kms.flip = next], next)

(* While a flip is pending the kernel refuses another one.                 *)
DrmPageFlip(w, next) ==
  Fine(Failed(w)) \cup
  IF w.kms.flip # NoBo THEN {w} ELSE DrmFlipAwaited([w EXCEPT !.kms.flip = next], next)

(* On a failure of eglSwapBuffers, gbm_surface_lock_front_buffer or        *)
(* drmModeAddFB the buffer is given back.                                  *)
DrmScanout(w) ==
  Fine(Failed(w)) \cup
  UNION {IF w.kms.set THEN DrmPageFlip(w, next) ELSE DrmFirstFrame(w, next) :
           next \in Bos \ {w.kms.locked}}

-----------------------------------------------------------------------------
(* platform_android.c.  The renderer comes and goes with the window.       *)

AndroidInitEgl == Get({"display", "surface", "context"})
AndroidTermEglAll(w) == ContextGone(Without(w, {"display", "surface"}), "context")

AndroidRendererDown(w) ==
  IF w.ctx = 0 THEN {w} ELSE {RendererShutdown(v) : v \in DropGpuCache(w)}

AndroidInitWindow(w) ==
  LET down == {AndroidTermEglAll(v) : v \in AndroidRendererDown(w)}
  IN  Fine(OrUndo(Run(down, AndroidInitEgl), RendererInit, AndroidTermEglAll))

AndroidTermWindow(w) == {AndroidTermEglAll(v) : v \in AndroidRendererDown(w)}

(* The icon cache is left alone when there is no renderer.                 *)
AndroidShutdown(w) ==
  LET dropped == IF w.ctx = 0 THEN FontShutdown(w) ELSE CachesDropped(w)
  IN  {AndroidTermEglAll(IF v.ctx = 0 THEN v ELSE RendererShutdown(v)) : v \in dropped}

-----------------------------------------------------------------------------
(* platform_macos.m.  The view holds the GL context.                       *)

MacosCloseWindow(w) == ContextGone(Without(w, {"window", "delegate"}), "view")

MacosInit(w) ==
  LET view == Try(Run({w}, Get({"window"}) \o Gen({"delegate"})), Get({"view"}), MacosCloseWindow)
  IN  OrUndo(view, RendererInit, LAMBDA v : RendererShutdown(MacosCloseWindow(v)))

MacosShutdown(w) == {MacosCloseWindow(RendererShutdown(v)) : v \in CachesDropped(w)}

-----------------------------------------------------------------------------
(* egl_ctx.c and output_x11.c of meek-compositor.  Without the first it    *)
(* imports no dmabufs, without the second it runs headless.                *)

EglCtxShutdown(w) == Without(w, {"egl_ctx", "egl_disp", "gbm_dev", "drm_fd"})

EglCtxOpenRenderNode == Get({"drm_fd"})

EglCtxContext == Check \o Get({"egl_disp"}) \o Check \o Get({"egl_ctx"}) \o Check

EglCtxInit(w) ==
  LET gbm == Try(Run({w}, EglCtxOpenRenderNode), Get({"gbm_dev"}),
                 LAMBDA v : Without(v, {"drm_fd"}))
  IN  Try(gbm, EglCtxContext, EglCtxShutdown)

OutputX11Shutdown(w) ==
  [Without(w, {"render_timer", "xconn_source", "egl_surface", "egl_context", "egl_display",
               "x11_window", "x11_display"}) EXCEPT !.armed = FALSE]

OutputX11Window == Get({"x11_window"})

OutputX11Egl ==
  Check \o Get({"egl_display"}) \o Check \o Get({"egl_context"}) \o Get({"egl_surface"}) \o Check

OutputX11Sources == Get({"xconn_source"}) \o Get({"render_timer"})

OutputX11Init(w) ==
  {[v EXCEPT !.armed = v.ok] :
     v \in Try(Run({w}, Get({"x11_display"})),
               OutputX11Window \o OutputX11Egl \o OutputX11Sources, OutputX11Shutdown)}

NestedInit(w) == Fine(UNION {OutputX11Init(v) : v \in Fine(EglCtxInit(w))})
NestedShutdown(w) == {EglCtxShutdown(OutputX11Shutdown(w))}

(* on_render_tick: where the context cannot be made current the timer is   *)
(* not armed again.                                                        *)
OutputX11RenderTick(w, size) ==
  LET v == [w EXCEPT !.view = size]
  IN  {[u EXCEPT !.armed = FALSE] : u \in Fine(Failed(v))}
        \cup {[v EXCEPT !.shown = size]}

-----------------------------------------------------------------------------
(* A frame.  A font that is laid out may need an atlas; begin_frame fits   *)
(* what is drawn to with the viewport, if it can; what is drawn may be an  *)
(* icon, and is the image; and what was drawn is shown.                    *)

(* D3D9 cannot be reset while it has buffers of the default pool, and that *)
(* of the image pipeline is not released.                                  *)
D3d9ResetSwapchain(w) ==
  LET v == Without(w, {"vbo", "text_vbo"})
      reset == Run({v}, Check \o Get({"vbo"}) \o Get({"text_vbo"}))
  IN  IF "image_vbo" \in w.held THEN {[v EXCEPT !.halted = TRUE]}
      ELSE {IF u.ok THEN [u EXCEPT !.target = AtLeastOne(u.view)]
            ELSE [u EXCEPT !.ok = TRUE, !.halted = TRUE] : u \in reset}

D3d9BeginFrame(w) == IF w.halted \/ w.view = w.target THEN {w} ELSE D3d9ResetSwapchain(w)

(* The size is remembered before the buffers have it.                      *)
D3d11HandleResize(w) ==
  LET v == Without(w, {"rtv"})
  IN  {[u EXCEPT !.ok = TRUE, !.target = AtLeastOne(w.view)] :
         u \in Run({v}, Check \o D3d11CreateRtv)}

(* Mutant: the buffers follow a window that grows.                         *)
D3d11BeginFrame_Grows(w) == IF w.view <= w.target THEN {w} ELSE D3d11HandleResize(w)

D3d11BeginFrame(w) == IF w.view = w.target THEN {w} ELSE D3d11HandleResize(w)

(* A swapchain of another size is out of date, and is not made again.      *)
VulkanBeginFrame(w) == {[w EXCEPT !.halted = @ \/ w.view # w.target]}

BeginFrame(w) ==
  CASE w.api \in Gl      -> {[w EXCEPT !.target = w.view]}
    [] w.api = "d3d9"    -> D3d9BeginFrame(w)
    [] w.api = "d3d11"   -> D3d11BeginFrame(w)
    [] w.api = "d3d12"   -> {w}
    [] w.api = "vulkan"  -> VulkanBeginFrame(w)

IconTex(w, icon) ==
  LET at == Place(w.icons, icon) IN IF at = {} THEN 0 ELSE w.icons[CHOOSE i \in at : TRUE].tex

EmitDraws(w, icon) ==
  UNION {UNION {ImageDrawn(u, u.image) : u \in ImageDrawn(v, IconTex(v, icon))} :
           v \in GetOrLoad(w, icon)}

Draws(w) == ~w.halted /\ (w.api = "d3d11" => "rtv" \in w.held)

(* Presenting may find a D3D9 device lost.                                 *)
EndFrame(w) ==
  {IF Draws(w) THEN [w EXCEPT !.shown = w.target] ELSE w}
    \cup IF w.api = "d3d9" /\ ~w.halted
         THEN {[v EXCEPT !.halted = TRUE] : v \in Fine(Failed(w))} ELSE {}

Frame(w, font, icon) ==
  UNION {UNION {UNION {EndFrame(x) : x \in EmitDraws(v, icon)} : v \in BeginFrame(u)} :
           u \in FontAt(w, font)}

-----------------------------------------------------------------------------
Windowed == {"win32", "x11", "wayland", "android", "macos"}

Win32OnSize(w, size) == [w EXCEPT !.view = size]
Win32Tick(w, size, font, icon) == Frame(Win32OnSize(w, size), font, icon)

X11OnConfigure(w, size) == [w EXCEPT !.view = size]
X11Tick(w, size, font, icon) == Frame(X11OnConfigure(w, size), font, icon)

MacosTick(w, size, font, icon) == Frame([w EXCEPT !.view = size], font, icon)

(* A new size, or what else asks for it, makes the next frame due; without *)
(* activity none is.                                                       *)
WaylandTick(w, size, font, icon) ==
  LET v == IF size > 0 THEN [w EXCEPT !.view = size] ELSE w
  IN  Frame(v, font, icon) \cup (IF v = w THEN {w} ELSE {})

DrmTick(w, size, font, icon) ==
  IF size = w.view THEN UNION {DrmScanout(v) : v \in Frame(w, font, icon)} ELSE {}

AndroidQueryWindowSize(w, size) == IF size = 0 THEN w ELSE [w EXCEPT !.view = size]

AndroidTick(w, size, font, icon) ==
  IF w.ctx = 0 THEN {w} ELSE Frame(AndroidQueryWindowSize(w, size), font, icon)

PlatformInit(w) ==
  CASE w.plat = "win32"   -> Win32Init(w)
    [] w.plat = "x11"     -> X11Init(w)
    [] w.plat = "wayland" -> WaylandInit(w)
    [] w.plat = "drm"     -> DrmInit(w)
    [] w.plat = "android" -> {w}
    [] w.plat = "macos"   -> MacosInit(w)
    [] w.plat = "nested"  -> NestedInit(w)

PlatformTick(w, size, font, icon) ==
  CASE w.plat = "win32"   -> Win32Tick(w, size, font, icon)
    [] w.plat = "x11"     -> X11Tick(w, size, font, icon)
    [] w.plat = "wayland" -> WaylandTick(w, size, font, icon)
    [] w.plat = "drm"     -> DrmTick(w, size, font, icon)
    [] w.plat = "android" -> AndroidTick(w, size, font, icon)
    [] w.plat = "macos"   -> MacosTick(w, size, font, icon)
    [] OTHER              -> {}

PlatformShutdown(w) ==
  CASE w.plat = "win32"   -> Win32Shutdown(w)
    [] w.plat = "x11"     -> X11Shutdown(w)
    [] w.plat = "wayland" -> WaylandShutdown(w)
    [] w.plat = "drm"     -> DrmShutdown(w)
    [] w.plat = "android" -> AndroidShutdown(w)
    [] w.plat = "macos"   -> MacosShutdown(w)
    [] w.plat = "nested"  -> NestedShutdown(w)

-----------------------------------------------------------------------------
Up(plats) == h.app = "up" /\ h.plat \in plats

(* platform__init.                                                         *)
Start ==
  /\ h.app = "off"
  /\ \E w \in PlatformInit(h) :
       h' = [w EXCEPT !.app = IF w.ok THEN "up" ELSE "failed", !.ok = TRUE]

(* platform__tick, with the events it begins with.                         *)
Tick(size, font, icon) ==
  /\ Up(Windowed \cup {"drm"})
  /\ h' \in PlatformTick(h, size, font, icon)

(* The tree is loaded, or loaded again: the new image before the old one   *)
(* is destroyed.                                                           *)
Reload == Up(Windowed \cup {"drm"}) /\ h' \in ImageReplaced(h)

on_seat_capabilities(caps) ==
  Up({"wayland"}) /\ "seat" \in h.held /\ h' = SeatCapabilities(h, caps)

on_app_cmd ==
  /\ Up({"android"})
  /\ \/ h.made < MaxContexts /\ h' \in AndroidInitWindow(h)
     \/ h' \in AndroidTermWindow(h)

(* A page flip that nobody waits for any more is done.                     *)
FlipLate ==
  /\ Up({"drm"}) /\ h.kms.flip # NoBo
  /\ h' = [h EXCEPT !.kms.screen = h.kms.flip, !.kms.flip = NoBo, !.kms.unread = TRUE]

on_render_tick(size) == Up({"nested"}) /\ h.armed /\ h' \in OutputX11RenderTick(h, size)

on_xconn_readable(size) ==
  Up({"nested"}) /\ "xconn_source" \in h.held /\ h' = [h EXCEPT !.view = size]

(* The tree is freed, with what its nodes hold, and then the platform.     *)
Stop ==
  /\ h.app = "up"
  /\ h' \in {[v EXCEPT !.app = "stopped"] :
               v \in UNION {PlatformShutdown(w) : w \in ImageDestroyed(h)}}

Events ==
  \/ \E size \in Sizes, font \in Fonts \cup {NoFont}, icon \in Icons \cup {NoIcon} :
       (font = NoFont \/ icon = NoIcon) /\ Tick(size, font, icon)
  \/ \E caps \in Capabilities : on_seat_capabilities(caps)
  \/ \E size \in Sizes \ {0} : on_render_tick(size) \/ on_xconn_readable(size)
  \/ Reload \/ on_app_cmd \/ FlipLate

HostNext == Start \/ Events \/ Stop

-----------------------------------------------------------------------------
(* What is left by a start that fails: what the platform leaves to the end *)
(* of the process, and the arrays of a renderer that failed.               *)
Arrays == {"cpu_verts", "text_cpu_verts"}
LeftByFailure(plat) ==
  CASE plat = "x11"     -> {"egl_display", "egl_context", "egl_surface"} \cup Arrays
    [] plat = "drm"     -> {"egl_display", "egl_context", "egl_surface", "gbm_dev",
                            "gbm_surface"} \cup Arrays
    [] plat = "wayland" -> {"keyboard"} \cup Arrays
    [] OTHER            -> {}

LeftByStop(plat) ==
  CASE plat = "wayland" -> {"keyboard"}
    [] plat = "android" -> Arrays
    [] OTHER            -> {}

(* What a set-up that is tried again makes twice, and the shader that does *)
(* compile when the other one of a program does not.                       *)
LostToRetries(w) ==
  Objects(TxProgram(w.api)) \cup Objects(ImageProgram(w.api))
    \cup (IF w.api \in Gl THEN {"vs", "fs", "text_vs", "text_fs"} ELSE {})
    \cup (IF w.plat = "android" THEN Arrays ELSE {})

HostTypeOK ==
  LET contexts == 0 .. MaxContexts
      Kept(K) == Seq([key : K, tex : contexts])
  IN  /\ [plat |-> h.plat, api |-> h.api] \in Builds
      /\ h.app \in {"off", "up", "failed", "crashed", "stopped"}
      /\ h.held \cup h.lost \subseteq STRING
      /\ {h.ok, h.built, h.halted, h.armed} \subseteq BOOLEAN
      /\ h.fails \in 0 .. MaxFailures /\ h.live \in Nat
      /\ {h.ctx, h.made, h.tex, h.image} \subseteq contexts
      /\ h.fonts \in Kept(Fonts) /\ Len(h.fonts) <= MaxFonts
      /\ h.icons \in Kept(Icons) /\ Len(h.icons) <= MaxIcons
      /\ {h.view, h.target, h.shown} \subseteq Sizes
      /\ h.kms \in [set : BOOLEAN, locked : Bos \cup {NoBo}, screen : Bos \cup {NoBo},
                    flip : Bos \cup {NoBo}, unread : BOOLEAN, late : BOOLEAN]

(* Whatever failed on the way up or was made lazily since, a program that  *)
(* stopped has released all it held but the wl_keyboard, a start that      *)
(* failed leaves no more than its platform is known to leave, and nothing  *)
(* is dropped that was not made twice.                                     *)
NothingIsLeft ==
  /\ h.app = "stopped" => h.held \subseteq LeftByStop(h.plat)
  /\ h.app = "failed" => h.held \subseteq LeftByFailure(h.plat)
  /\ h.lost \subseteq LostToRetries(h)

(* An atlas is of the context that draws it, whatever windows came and     *)
(* went, and elsewhere than on Android an icon and an image are, too; and  *)
(* there every texture that exists is an entry's.                          *)
TexturesAreOwnedOnce ==
  /\ \A i \in DOMAIN h.fonts : h.fonts[i].tex \in {0, h.ctx}
  /\ h.app = "up" /\ h.plat # "android" => Entries(h) \subseteq {0, h.ctx} /\ h.live = Owners(h)

(* After every frame the window shows one of its own size, unless the      *)
(* renderer draws no more, or lost its buffers to a resize that failed; on *)
(* Direct3D 12 what is drawn never follows the window.                     *)
ResizesAreShown ==
  h.app = "up" /\ h.plat \in Windowed /\ h.api # "d3d12" /\ h.shown # 0 /\ Draws(h)
    => h.shown = AtLeastOne(h.view) \/ h.view = 0

(* What the CRTC scans out is the buffer that is locked, so that no frame  *)
(* is drawn into it, unless a wait for a flip was ever given up.           *)
ScannedOutIsHeld ==
  h.plat = "drm" /\ h.app = "up" /\ h.kms.set /\ ~h.kms.late => h.kms.screen = h.kms.locked

(* What was drawn is what the screen shows.                                *)
TheFrameIsShown == ResizesAreShown /\ ScannedOutIsHeld
=============================================================================
