---------------------------- MODULE Windows_proofs ----------------------------
(***************************************************************************)
(* Proofs about the windows of Compositor, their handles and what the      *)
(* shell is told of them, for any clients, windows and bounds.             *)
(*                                                                         *)
(* Some of it depends on how clients take their windows down: the code     *)
(* lets a client destroy an xdg_surface before its toplevel ("reversed").  *)
(* What holds only without that has it as a hypothesis.                    *)
(***************************************************************************)
EXTENDS Compositor, TLAPS

(* The variables that these proofs are about, and their part of TypeOK. *)
windowVars == <<slotVars, told, xdgVars>>

WindowTypeOK ==
  /\ bound \in Clients \cup {NoClient}
  /\ announced \in BOOLEAN /\ ready \in BOOLEAN
  /\ told \in [Handles -> Titles \cup {Untold}]
  /\ xdg \in [Windows -> XdgSurfaces]
  /\ toplevel \in [Windows -> Toplevels]
  /\ next_handle \in 1 .. MaxHandle + 1

(* What a step of the composition can do to them. *)
OwnWindow(w) ==
  /\ GetXdgSurface(w) \/ GetToplevel(w) \/ GetPopup(w) \/ \E t \in Titles : SetTitle(w, t)
  /\ UNCHANGED slotVars

WindowsGone(ws) ==
  FireToplevelsRemoved(ws) /\ WindowsFreed(ws) /\ UNCHANGED slotVars

ToplevelGone(w) ==
  /\ toplevel[w].live /\ (xdg[w].listed => "split" \in Teardown)
  /\ FireToplevelsRemoved({w}) /\ ToplevelFreed(w) /\ UNCHANGED slotVars

XdgSurfaceGone(w) ==
  /\ toplevel[w].live => "reversed" \in Teardown
  /\ XdgSurfaceFreed(w) /\ UNCHANGED <<slotVars, told>>

SurfaceSeen(w) ==
  /\ WlSurfaceGone(w) \/ \E sent \in BOOLEAN : CommitSeen(w, sent)
  /\ UNCHANGED <<slotVars, told>>

ShellComes(c) == TakeSlot(c) /\ DemoteToplevels(c) /\ UNCHANGED told

(* The replay: the handle read in each toplevel that a walk comes to.       *)
ShellReady ==
  /\ bound # NoClient /\ announced' = TRUE /\ ready' = TRUE
  /\ \E read \in [Windows -> 0 .. MaxHandle] :
       /\ \A w \in Windows : read[w] \in (IF HasToplevel(w) THEN HandleRead(w)
                                                        ELSE {0})
       /\ Replay(read)
  /\ UNCHANGED <<bound, xdgVars>>

ShellGoes(ws) ==
  FreeSlot /\ (WindowsFreed(ws) \/ UNCHANGED xdgVars)

WindowStep ==
  \/ \E w \in Windows :
       OwnWindow(w) \/ ToplevelGone(w) \/ XdgSurfaceGone(w) \/ SurfaceSeen(w)
  \/ \E ws \in SUBSET Windows : WindowsGone(ws) \/ ShellGoes(ws)
  \/ \E c \in Clients : ShellComes(c)

WindowNext == WindowStep \/ ShellReady

LEMMA OnlyAnnouncementsReplay ==
  [Next]_vars => \/ meek_shell_announce_ready /\ ShellReady
                 \/ [WindowStep]_windowVars
<1> USE DEF windowVars, slotVars, xdgVars
<1> SUFFICES ASSUME [Next]_vars
             PROVE  \/ meek_shell_announce_ready /\ ShellReady
                    \/ WindowStep \/ UNCHANGED windowVars
  OBVIOUS
<1>1. ASSUME NEW w \in Windows, WindowRequest(w)
      PROVE  WindowStep \/ UNCHANGED windowVars
  <2>1. CASE compositor_create_surface(w) \/ surface_frame(w)
               \/ \E b \in Buffers \cup {NoBuffer} : surface_attach(w, b)
    BY <2>1 DEF compositor_create_surface, surface_frame, surface_attach, meekVars
  <2>2. CASE wm_base_get_xdg_surface(w)
    BY <2>2 DEF wm_base_get_xdg_surface, meekVars, WindowStep, OwnWindow
  <2>3. CASE xdg_surface_get_toplevel(w)
    BY <2>3 DEF xdg_surface_get_toplevel, WindowStep, OwnWindow
  <2>4. CASE xdg_surface_get_popup(w)
    BY <2>4 DEF xdg_surface_get_popup, meekVars, WindowStep, OwnWindow
  <2>5. CASE \E t \in Titles \ {NoTitle} : toplevel_set_title(w, t)
    BY <2>5 DEF toplevel_set_title, WindowStep, OwnWindow
  <2>6. CASE window_destroy(w)
    <3>1. WindowsGone({w}) /\ {w} \in SUBSET Windows
      BY <2>6 DEF window_destroy, WindowsGone
    <3> QED
      BY <3>1 DEF WindowStep
  <2>7. CASE toplevel_destroy(w)
    BY <2>7 DEF toplevel_destroy, WindowStep, ToplevelGone
  <2>8. CASE xdg_surface_destroy(w)
    BY <2>8 DEF xdg_surface_destroy, meekVars, WindowStep, XdgSurfaceGone
  <2>9. CASE surface_destroy(w)
    BY <2>9 DEF surface_destroy, meekVars, WindowStep, SurfaceSeen
  <2>10. CASE surface_commit(w)
    <3>1. UNCHANGED <<slotVars, told>> /\ \E sent \in BOOLEAN : CommitSeen(w, sent)
      BY <2>10 DEF surface_commit, ShellCommit, AppCommit
    <3> QED
      BY <3>1 DEF WindowStep, SurfaceSeen
  <2> QED
    BY <1>1, <2>1, <2>2, <2>3, <2>4, <2>5, <2>6, <2>7, <2>8, <2>9, <2>10
       DEF WindowRequest
<1>2. ASSUME NEW b \in Buffers, buffer_create(b) \/ buffer_destroy(b)
      PROVE  UNCHANGED windowVars
  BY <1>2 DEF buffer_create, buffer_destroy, meekVars
<1>3. ASSUME NEW c \in Clients, connect(c) \/ disconnect(c) \/ meek_shell_bind(c)
      PROVE  WindowStep \/ UNCHANGED windowVars
  <2>1. CASE connect(c)
    BY <2>1 DEF connect, meekVars
  <2>2. CASE disconnect(c)
    <3>1. WindowsOf(c) \in SUBSET Windows
      BY DEF WindowsOf
    <3>2. WindowsGone(WindowsOf(c)) \/ ShellGoes(WindowsOf(c))
      BY <2>2 DEF disconnect, WindowsGone, ShellGoes
    <3> QED
      BY <3>1, <3>2 DEF WindowStep
  <2>3. CASE meek_shell_bind(c)
    BY <2>3 DEF meek_shell_bind, WindowStep, ShellComes
  <2> QED
    BY <1>3, <2>1, <2>2, <2>3
<1>4. CASE meek_shell_announce_ready
  BY <1>4 DEF meek_shell_announce_ready, ShellReady
<1>5. CASE meek_shell_destroy
  <2>1. ShellGoes({})
    BY <1>5 DEF meek_shell_destroy, ShellGoes
  <2> QED
    BY <2>1 DEF WindowStep
<1>6. CASE page_flip
  BY <1>6 DEF page_flip, meekVars
<1>7. CASE UNCHANGED vars
  BY <1>7 DEF vars, meekVars
<1> QED
  BY <1>1, <1>2, <1>3, <1>4, <1>5, <1>6, <1>7 DEF Next

LEMMA EveryStepIsAWindowStep == [Next]_vars => [WindowNext]_windowVars
BY OnlyAnnouncementsReplay DEF WindowNext

-----------------------------------------------------------------------------
LEMMA NoWindowTypes == NoXdgSurface \in XdgSurfaces /\ NoToplevel \in Toplevels
BY MeekShellAssumption
   DEF MeekShellAssumption, NoXdgSurface, XdgSurfaces, NoToplevel, Toplevels

LEMMA InitTypes == Init => WindowTypeOK
<1> SUFFICES ASSUME Init PROVE WindowTypeOK
  OBVIOUS
<1>1. told \in [Handles -> Titles \cup {Untold}]
  BY DEF Init, MeekInit, NothingTold
<1>2. xdg \in [Windows -> XdgSurfaces] /\ toplevel \in [Windows -> Toplevels]
  BY NoWindowTypes DEF Init, XdgInit
<1>3. next_handle \in 1 .. MaxHandle + 1
  BY MeekShellAssumption DEF MeekShellAssumption, Init, XdgInit
<1> QED
  BY <1>1, <1>2, <1>3 DEF Init, MeekInit, WindowTypeOK

-----------------------------------------------------------------------------
(* Types, operation by operation. *)

LEMMA FireTypes ==
  ASSUME WindowTypeOK
  PROVE  /\ \A h, t : FireTitle(h, t) /\ t \in Titles
                        => told' \in [Handles -> Titles \cup {Untold}]
         /\ \A gone : FireRemoved(gone)
                        => told' \in [Handles -> Titles \cup {Untold}]
BY DEF WindowTypeOK, FireTitle, FireRemoved

LEMMA GetToplevelTypes ==
  ASSUME WindowTypeOK, NEW w \in Windows, GetToplevel(w), UNCHANGED slotVars
  PROVE  WindowTypeOK'
<1>1. xdg' \in [Windows -> XdgSurfaces]
  <2>1. xdg' = [xdg EXCEPT ![w].role = "toplevel", ![w].toplevel = TRUE,
                           ![w].pending_configure = TRUE]
    BY DEF GetToplevel
  <2> DEFINE x == [xdg[w] EXCEPT !.role = "toplevel", !.toplevel = TRUE,
                                 !.pending_configure = TRUE]
  <2>2. xdg \in [Windows -> XdgSurfaces] /\ xdg[w] \in XdgSurfaces
    BY DEF WindowTypeOK
  <2>3. x \in XdgSurfaces
    BY <2>2 DEF XdgSurfaces
  <2>4. xdg' = [xdg EXCEPT ![w] = x]
    BY <2>1, <2>2
  <2> HIDE DEF x
  <2> QED
    BY <2>2, <2>3, <2>4
<1>2. CASE owner[w] # bound
  <2>1. /\ next_handle \in Handles
        /\ toplevel' = [toplevel EXCEPT ![w] =
             [NoToplevel EXCEPT !.live = TRUE, !.handle = next_handle]]
        /\ next_handle' = next_handle + 1
        /\ FireTitle(next_handle, NoTitle)
    BY <1>2 DEF GetToplevel
  <2>2. [NoToplevel EXCEPT !.live = TRUE, !.handle = next_handle] \in Toplevels
    <3>1. next_handle \in 0 .. MaxHandle
      BY <2>1, MeekShellAssumption DEF MeekShellAssumption, Handles
    <3> QED
      BY <3>1, NoWindowTypes DEF Toplevels
  <2>3. toplevel' \in [Windows -> Toplevels]
    BY <2>1, <2>2 DEF WindowTypeOK
  <2>4. told' \in [Handles -> Titles \cup {Untold}]
    BY <2>1, FireTypes, MeekShellAssumption DEF MeekShellAssumption
  <2>5. next_handle' \in 1 .. MaxHandle + 1
    BY <2>1, MeekShellAssumption DEF MeekShellAssumption, Handles
  <2> QED
    BY <1>1, <2>3, <2>4, <2>5 DEF WindowTypeOK, slotVars
<1>3. CASE owner[w] = bound
  <2>1. /\ toplevel' = [toplevel EXCEPT ![w] = [NoToplevel EXCEPT !.live = TRUE]]
        /\ UNCHANGED <<next_handle, told>>
    BY <1>3 DEF GetToplevel
  <2>2. [NoToplevel EXCEPT !.live = TRUE] \in Toplevels
    BY NoWindowTypes DEF Toplevels
  <2> QED
    BY <1>1, <2>1, <2>2 DEF WindowTypeOK, slotVars
<1> QED
  BY <1>2, <1>3

LEMMA OwnWindowTypes ==
  ASSUME WindowTypeOK, NEW w \in Windows, UNCHANGED slotVars,
         \/ GetXdgSurface(w)
         \/ GetPopup(w)
         \/ \E t \in Titles : SetTitle(w, t)
  PROVE  WindowTypeOK'
<1>1. CASE GetXdgSurface(w)
  <2>1. [NoXdgSurface EXCEPT !.listed = TRUE, !.wl_surface = TRUE] \in XdgSurfaces
    BY DEF NoXdgSurface, XdgSurfaces
  <2> QED
    BY <1>1, <2>1 DEF GetXdgSurface, WindowTypeOK, slotVars
<1>2. CASE GetPopup(w)
  <2>1. /\ xdg' = [xdg EXCEPT ![w].role = "popup", ![w].pending_configure = TRUE]
        /\ UNCHANGED <<toplevel, next_handle, told>>
    BY <1>2 DEF GetPopup
  <2>2. xdg' \in [Windows -> XdgSurfaces]
    BY <2>1 DEF WindowTypeOK, XdgSurfaces
  <2> QED
    BY <2>1, <2>2 DEF WindowTypeOK, slotVars
<1>3. ASSUME NEW t \in Titles, SetTitle(w, t)
      PROVE  WindowTypeOK'
  <2>1. toplevel' \in [Windows -> Toplevels]
    <3>1. toplevel' = [toplevel EXCEPT ![w].title = t]
      BY <1>3 DEF SetTitle
    <3> QED
      BY <3>1 DEF WindowTypeOK, Toplevels
  <2>2. told' \in [Handles -> Titles \cup {Untold}]
    BY <1>3, FireTypes DEF SetTitle, WindowTypeOK
  <2> QED
    BY <1>3, <2>1, <2>2 DEF SetTitle, WindowTypeOK, slotVars
<1> QED
  BY <1>1, <1>2, <1>3

LEMMA TeardownTypes ==
  ASSUME WindowTypeOK
  PROVE  /\ \A ws \in SUBSET Windows : WindowsFreed(ws) =>
              /\ xdg' \in [Windows -> XdgSurfaces]
              /\ toplevel' \in [Windows -> Toplevels]
         /\ \A w \in Windows :
              ToplevelFreed(w) \/ XdgSurfaceFreed(w) \/ WlSurfaceGone(w) =>
                /\ xdg' \in [Windows -> XdgSurfaces]
                /\ toplevel' \in [Windows -> Toplevels]
<1>1. ASSUME NEW ws \in SUBSET Windows, WindowsFreed(ws)
      PROVE  /\ xdg' \in [Windows -> XdgSurfaces]
             /\ toplevel' \in [Windows -> Toplevels]
  BY <1>1, NoWindowTypes DEF WindowsFreed, WindowTypeOK
<1>2. ASSUME NEW w \in Windows, ToplevelFreed(w)
      PROVE  /\ xdg' \in [Windows -> XdgSurfaces]
             /\ toplevel' \in [Windows -> Toplevels]
  <2>1. [toplevel EXCEPT ![w].live = FALSE] \in [Windows -> Toplevels]
    BY DEF WindowTypeOK, Toplevels
  <2>2. [toplevel EXCEPT ![w] = NoToplevel] \in [Windows -> Toplevels]
    BY NoWindowTypes DEF WindowTypeOK
  <2> QED
    BY <1>2, <2>1, <2>2 DEF ToplevelFreed, WindowTypeOK
<1>3. ASSUME NEW w \in Windows, XdgSurfaceFreed(w)
      PROVE  /\ xdg' \in [Windows -> XdgSurfaces]
             /\ toplevel' \in [Windows -> Toplevels]
  BY <1>3, NoWindowTypes DEF XdgSurfaceFreed, WindowTypeOK
<1>4. ASSUME NEW w \in Windows, WlSurfaceGone(w)
      PROVE  /\ xdg' \in [Windows -> XdgSurfaces]
             /\ toplevel' \in [Windows -> Toplevels]
  BY <1>4 DEF WlSurfaceGone, WindowTypeOK, XdgSurfaces
<1> QED
  BY <1>1, <1>2, <1>3, <1>4

LEMMA CommitSeenTypes ==
  ASSUME WindowTypeOK, NEW w \in Windows, NEW sent \in BOOLEAN, CommitSeen(w, sent)
  PROVE  /\ xdg' \in [Windows -> XdgSurfaces]
         /\ toplevel' \in [Windows -> Toplevels]
<1> DEFINE due == xdg[w].wl_surface /\ xdg[w].pending_configure
<1>1. due \in BOOLEAN /\ toplevel[w].live \in BOOLEAN
  BY DEF WindowTypeOK, XdgSurfaces, Toplevels
<1>2. xdg' = [xdg EXCEPT ![w].pending_configure = @ /\ ~due]
  BY DEF CommitSeen
<1>3. toplevel' = [toplevel EXCEPT
         ![w].configured = @ \/ (due /\ toplevel[w].live),
         ![w].sized = @ \/ (sent /\ toplevel[w].live)]
  BY DEF CommitSeen
<1> HIDE DEF due
<1>4. xdg' \in [Windows -> XdgSurfaces]
  <2> DEFINE x == [xdg[w] EXCEPT !.pending_configure = @ /\ ~due]
  <2>1. xdg \in [Windows -> XdgSurfaces] /\ xdg[w] \in XdgSurfaces
    BY DEF WindowTypeOK
  <2>2. x \in XdgSurfaces
    BY <1>1, <2>1 DEF XdgSurfaces
  <2>3. xdg' = [xdg EXCEPT ![w] = x]
    BY <1>2, <2>1
  <2> HIDE DEF x
  <2> QED
    BY <2>1, <2>2, <2>3
<1>5. toplevel' \in [Windows -> Toplevels]
  <2> DEFINE seen == [toplevel[w] EXCEPT
                        !.configured = @ \/ (due /\ toplevel[w].live),
                        !.sized = @ \/ (sent /\ toplevel[w].live)]
  <2>1. seen \in Toplevels
    BY <1>1 DEF WindowTypeOK, Toplevels
  <2>2. toplevel' = [toplevel EXCEPT ![w] = seen]
    BY <1>3 DEF WindowTypeOK
  <2> QED
    BY <2>1, <2>2 DEF WindowTypeOK
<1> QED
  BY <1>4, <1>5

LEMMA DemoteTypes ==
  ASSUME WindowTypeOK, NEW c, DemoteToplevels(c)
  PROVE  toplevel' \in [Windows -> Toplevels]
<1>1. \A w \in Windows : [toplevel[w] EXCEPT !.handle = 0] \in Toplevels
  BY MeekShellAssumption DEF MeekShellAssumption, WindowTypeOK, Toplevels
<1> QED
  BY <1>1 DEF DemoteToplevels, WindowTypeOK

LEMMA ReplayTypes ==
  ASSUME WindowTypeOK, NEW read \in [Windows -> 0 .. MaxHandle],
         \A w \in Windows : read[w] \in (IF HasToplevel(w) THEN HandleRead(w) ELSE {0}),
         Replay(read)
  PROVE  told' \in [Handles -> Titles \cup {Untold}]
<1> DEFINE found == {read[w] : w \in {v \in Windows : HasToplevel(v)}}
           Holds(w, h) == /\ toplevel[w].handle = h
                          /\ h \in LiveHandles => toplevel[w].live
           Struct(h) == CHOOSE w \in Windows : Holds(w, h)
<1>1. ASSUME NEW h \in Handles, h \in found
      PROVE  toplevel[Struct(h)].title \in Titles
  <2>1. h # 0
    BY MeekShellAssumption DEF MeekShellAssumption, Handles
  <2>2. \E w \in Windows : toplevel[w].handle = h
    BY <1>1, <2>1 DEF HandleRead, LiveHandles
  <2>3. \E w \in Windows : Holds(w, h)
    BY <2>2 DEF LiveHandles
  <2>4. Struct(h) \in Windows
    BY <2>3
  <2> QED
    BY <2>4 DEF WindowTypeOK, Toplevels
<1>2. told' = [h \in Handles |->
                 IF h \in found THEN toplevel[Struct(h)].title ELSE told[h]]
  BY DEF Replay
<1> HIDE DEF found, Struct
<1> QED
  BY <1>1, <1>2 DEF WindowTypeOK

LEMMA NextTypes == WindowTypeOK /\ [WindowNext]_windowVars => WindowTypeOK'
<1> SUFFICES ASSUME WindowTypeOK, [WindowNext]_windowVars PROVE WindowTypeOK'
  OBVIOUS
<1> USE DEF slotVars, xdgVars
<1>1. ASSUME NEW w \in Windows, OwnWindow(w) PROVE WindowTypeOK'
  BY <1>1, GetToplevelTypes, OwnWindowTypes DEF OwnWindow
<1>2. ASSUME NEW w \in Windows, ToplevelGone(w) \/ XdgSurfaceGone(w) PROVE WindowTypeOK'
  <2>1. told' \in [Handles -> Titles \cup {Untold}]
    BY <1>2, FireTypes
       DEF ToplevelGone, FireToplevelsRemoved, XdgSurfaceGone, WindowTypeOK
  <2>2. UNCHANGED <<slotVars, next_handle>> /\ (ToplevelFreed(w) \/ XdgSurfaceFreed(w))
    BY <1>2 DEF ToplevelGone, XdgSurfaceGone, ToplevelFreed, XdgSurfaceFreed
  <2> QED
    BY <2>1, <2>2, TeardownTypes DEF WindowTypeOK
<1>3. ASSUME NEW w \in Windows, SurfaceSeen(w) PROVE WindowTypeOK'
  <2>1. UNCHANGED <<slotVars, told, next_handle>>
    BY <1>3 DEF SurfaceSeen, WlSurfaceGone, CommitSeen
  <2> QED
    BY <1>3, <2>1, TeardownTypes, CommitSeenTypes DEF SurfaceSeen, WindowTypeOK
<1>4. ASSUME NEW ws \in SUBSET Windows, WindowsGone(ws) PROVE WindowTypeOK'
  <2>1. told' \in [Handles -> Titles \cup {Untold}]
    BY <1>4, FireTypes DEF WindowsGone, FireToplevelsRemoved
  <2>2. UNCHANGED <<slotVars, next_handle>> /\ WindowsFreed(ws)
    BY <1>4 DEF WindowsGone, WindowsFreed
  <2> QED
    BY <2>1, <2>2, TeardownTypes DEF WindowTypeOK
<1>5. ASSUME NEW ws \in SUBSET Windows, ShellGoes(ws) PROVE WindowTypeOK'
  <2>1. /\ bound' = NoClient /\ ready' = FALSE /\ announced' = announced
        /\ told' = NothingTold /\ next_handle' = next_handle
    BY <1>5 DEF ShellGoes, FreeSlot, WindowsFreed
  <2> QED
    BY <1>5, <2>1, TeardownTypes DEF ShellGoes, NothingTold, WindowTypeOK
<1>6. ASSUME NEW c \in Clients, ShellComes(c) PROVE WindowTypeOK'
  <2>1. toplevel' \in [Windows -> Toplevels]
    BY <1>6, DemoteTypes DEF ShellComes
  <2>2. bound' = c /\ UNCHANGED <<announced, ready, told, xdg, next_handle>>
    BY <1>6 DEF ShellComes, TakeSlot, DemoteToplevels
  <2> QED
    BY <2>1, <2>2 DEF WindowTypeOK
<1>7. CASE ShellReady
  <2>1. told' \in [Handles -> Titles \cup {Untold}]
    BY <1>7, ReplayTypes DEF ShellReady
  <2>2. announced' = TRUE /\ ready' = TRUE /\ UNCHANGED <<bound, xdgVars>>
    BY <1>7 DEF ShellReady
  <2> QED
    BY <2>1, <2>2 DEF WindowTypeOK
<1>8. CASE UNCHANGED windowVars
  BY <1>8 DEF windowVars, WindowTypeOK
<1> QED
  BY <1>1, <1>2, <1>3, <1>4, <1>5, <1>6, <1>7, <1>8 DEF WindowNext, WindowStep

(* The windows, the handles and the shell's slot keep their types. *)
THEOREM WindowTypeCorrect == Spec => []WindowTypeOK
<1>1. WindowTypeOK /\ [Next]_vars => WindowTypeOK'
  BY EveryStepIsAWindowStep, NextTypes
<1> QED
  BY <1>1, InitTypes, PTL DEF Spec

-----------------------------------------------------------------------------
(* Handles.  A step hands out the next handle, or no handle at all. *)

Hands(w) ==
  /\ next_handle \in Handles /\ next_handle' = next_handle + 1
  /\ toplevel'[w].live /\ toplevel'[w].handle = next_handle
  /\ \A v \in Windows \ {w} : toplevel'[v] = toplevel[v]

HandsNothing ==
  /\ next_handle' = next_handle
  /\ \A w \in Windows :
       toplevel'[w].live /\ toplevel'[w].handle # 0
         => toplevel[w].live /\ toplevel'[w].handle = toplevel[w].handle

LEMMA HandlesStep ==
  ASSUME WindowTypeOK, [WindowNext]_windowVars
  PROVE  HandsNothing \/ \E w \in Windows : Hands(w)
<1>1. ASSUME NEW w \in Windows, OwnWindow(w)
      PROVE  HandsNothing \/ Hands(w)
  <2>1. CASE GetXdgSurface(w) \/ GetPopup(w)
    BY <2>1 DEF GetXdgSurface, GetPopup, HandsNothing
  <2>2. CASE GetToplevel(w) /\ owner[w] # bound
    <3>1. /\ next_handle \in Handles /\ next_handle' = next_handle + 1
          /\ toplevel' = [toplevel EXCEPT ![w] =
               [NoToplevel EXCEPT !.live = TRUE, !.handle = next_handle]]
      BY <2>2 DEF GetToplevel
    <3> QED
      BY <3>1 DEF WindowTypeOK, Hands, NoToplevel
  <2>3. CASE GetToplevel(w) /\ owner[w] = bound
    <3>1. /\ next_handle' = next_handle
          /\ toplevel' = [toplevel EXCEPT ![w] = [NoToplevel EXCEPT !.live = TRUE]]
      BY <2>3 DEF GetToplevel
    <3> QED
      BY <3>1 DEF WindowTypeOK, HandsNothing, NoToplevel
  <2>4. ASSUME NEW t \in Titles, SetTitle(w, t)
        PROVE  HandsNothing
    <3>1. next_handle' = next_handle /\ toplevel' = [toplevel EXCEPT ![w].title = t]
      BY <2>4 DEF SetTitle
    <3> QED
      BY <3>1 DEF WindowTypeOK, Toplevels, HandsNothing
  <2> QED
    BY <1>1, <2>1, <2>2, <2>3, <2>4 DEF OwnWindow
<1>2. ASSUME NEW w \in Windows, ToplevelGone(w) \/ XdgSurfaceGone(w)
      PROVE  HandsNothing
  <2>1. /\ next_handle' = next_handle
        /\ \/ toplevel' = toplevel
           \/ toplevel' = [toplevel EXCEPT ![w].live = FALSE]
           \/ toplevel' = [toplevel EXCEPT ![w] = NoToplevel]
    BY <1>2 DEF ToplevelGone, ToplevelFreed, XdgSurfaceGone, XdgSurfaceFreed
  <2> QED
    BY <2>1 DEF WindowTypeOK, Toplevels, HandsNothing, NoToplevel
<1>3. ASSUME NEW w \in Windows, SurfaceSeen(w)
      PROVE  HandsNothing
  <2>1. CASE WlSurfaceGone(w)
    BY <2>1 DEF WlSurfaceGone, HandsNothing
  <2>2. ASSUME NEW sent \in BOOLEAN, CommitSeen(w, sent)
        PROVE  HandsNothing
    <3> DEFINE due == xdg[w].wl_surface /\ xdg[w].pending_configure
    <3>1. /\ next_handle' = next_handle
          /\ toplevel' = [toplevel EXCEPT
               ![w].configured = @ \/ (due /\ toplevel[w].live),
               ![w].sized = @ \/ (sent /\ toplevel[w].live)]
      BY <2>2 DEF CommitSeen
    <3> HIDE DEF due
    <3> QED
      BY <3>1 DEF WindowTypeOK, Toplevels, HandsNothing
  <2> QED
    BY <1>3, <2>1, <2>2 DEF SurfaceSeen
<1>4. ASSUME NEW ws \in SUBSET Windows, WindowsGone(ws) \/ ShellGoes(ws)
      PROVE  HandsNothing
  <2>1. WindowsFreed(ws) \/ UNCHANGED xdgVars
    BY <1>4 DEF WindowsGone, ShellGoes
  <2> QED
    BY <2>1 DEF WindowsFreed, xdgVars, HandsNothing, NoToplevel
<1>5. ASSUME NEW c \in Clients, ShellComes(c)
      PROVE  HandsNothing
  <2>1. /\ next_handle' = next_handle
        /\ toplevel' = [w \in Windows |->
             IF HasToplevel(w) /\ owner[w] = c /\ toplevel[w].live
             THEN [toplevel[w] EXCEPT !.handle = 0] ELSE toplevel[w]]
    BY <1>5 DEF ShellComes, DemoteToplevels
  <2> QED
    BY <2>1 DEF WindowTypeOK, Toplevels, HandsNothing
<1>6. CASE ShellReady \/ UNCHANGED windowVars
  BY <1>6 DEF ShellReady, windowVars, xdgVars, HandsNothing
<1> QED
  BY <1>1, <1>2, <1>3, <1>4, <1>5, <1>6 DEF WindowNext, WindowStep

(* Every handle in use was given out, so the next one is new. *)
HandlesAreOld ==
  \A w \in Windows : toplevel[w].live => toplevel[w].handle < next_handle

HandlesInv == WindowTypeOK /\ HandlesAreOld /\ HandleNamesOneWindow

LEMMA HandlesInvInit == Init => HandlesInv
BY InitTypes DEF Init, XdgInit, NoToplevel, HandlesInv, HandlesAreOld, HandleNamesOneWindow

LEMMA HandlesInvNext == HandlesInv /\ [Next]_vars => HandlesInv'
<1> SUFFICES ASSUME HandlesInv, [Next]_vars PROVE HandlesInv'
  OBVIOUS
<1>1. WindowTypeOK /\ WindowTypeOK'
  BY EveryStepIsAWindowStep, NextTypes DEF HandlesInv
<1>2. /\ next_handle \in Nat \ {0}
      /\ \A w \in Windows : toplevel[w].handle \in Nat /\ toplevel'[w].handle \in Nat
  BY <1>1, MeekShellAssumption DEF MeekShellAssumption, WindowTypeOK, Toplevels
<1>3. CASE HandsNothing
  BY <1>1, <1>2, <1>3 DEF HandsNothing, HandlesInv, HandlesAreOld, HandleNamesOneWindow
<1>4. ASSUME NEW w \in Windows, Hands(w)
      PROVE  HandlesInv'
  <2>1. HandlesAreOld'
    BY <1>2, <1>4 DEF Hands, HandlesInv, HandlesAreOld
  <2>2. HandleNamesOneWindow'
    BY <1>2, <1>4 DEF Hands, HandlesInv, HandlesAreOld, HandleNamesOneWindow
  <2> QED
    BY <1>1, <2>1, <2>2 DEF HandlesInv
<1> QED
  BY <1>1, <1>3, <1>4, HandlesStep, EveryStepIsAWindowStep

THEOREM HandlesInvariance == Spec => []HandlesInv
BY HandlesInvInit, HandlesInvNext, PTL DEF Spec

(* A handle names at most one live window, in whatever order the objects    *)
(* of windows are destroyed and however often shells come and go.           *)
THEOREM HandlesNameOneWindow == Spec => []HandleNamesOneWindow
BY HandlesInvariance, PTL DEF HandlesInv

(* next_handle only grows, so a handle that is given out was never given    *)
(* out before.                                                              *)
THEOREM FreshHandles == Spec => HandlesAreFresh
<1> DEFINE Fresh == \A h \in LiveHandles' \ LiveHandles :
                      h # 0 => next_handle <= h /\ h < next_handle'
<1>1. HandlesInv /\ [Next]_vars => [Fresh]_vars
  <2> SUFFICES ASSUME HandlesInv, [Next]_vars PROVE Fresh
    OBVIOUS
  <2>1. next_handle \in Nat
    BY MeekShellAssumption DEF MeekShellAssumption, HandlesInv, WindowTypeOK
  <2>2. CASE HandsNothing
    BY <2>2 DEF HandsNothing, LiveHandles
  <2>3. ASSUME NEW w \in Windows, Hands(w)
        PROVE  Fresh
    BY <2>1, <2>3 DEF Hands, LiveHandles
  <2> QED
    BY <2>2, <2>3, HandlesStep, EveryStepIsAWindowStep DEF HandlesInv
<1> QED
  BY <1>1, HandlesInvariance, PTL DEF Spec, HandlesAreFresh

-----------------------------------------------------------------------------
(* The window list of the shell. *)

(* A shell that announced itself listens, and who does not listen has been  *)
(* told nothing; the flag that a previous shell left behind does no harm    *)
(* to that.                                                                 *)
SlotInv ==
  /\ ready => Listening
  /\ ~Listening => told = NothingTold

(* The walks over the xdg_surfaces find every toplevel, unless an           *)
(* xdg_surface died before its toplevel.                                    *)
WalksFindToplevels ==
  "reversed" \notin Teardown =>
    \A w \in Windows : toplevel[w].live => HasToplevel(w)

(* A toplevel whose xdg_surface lives is that one's, whatever clients do.   *)
ListedToplevelsAreLinked ==
  \A w \in Windows : xdg[w].listed /\ toplevel[w].live => HasToplevel(w)

LinksInv ==
  /\ WindowTypeOK
  /\ SlotInv
  /\ WalksFindToplevels
  /\ ListedToplevelsAreLinked

LEMMA LinksInvInit == Init => LinksInv
BY InitTypes DEF Init, MeekInit, XdgInit, NoToplevel, NoXdgSurface, LinksInv,
   SlotInv, WalksFindToplevels,
   ListedToplevelsAreLinked, HasToplevel, Listening

(* Whoever is bound, its slot, its flag and what it was told fit together.  *)
LEMMA SlotInvNext ==
  ASSUME WindowTypeOK, SlotInv, [WindowNext]_windowVars
  PROVE  SlotInv'
<1>1. ASSUME NEW w \in Windows,
             OwnWindow(w) \/ ToplevelGone(w) \/ XdgSurfaceGone(w) \/ SurfaceSeen(w)
      PROVE  SlotInv'
  <2>1. UNCHANGED slotVars
    BY <1>1 DEF OwnWindow, ToplevelGone, XdgSurfaceGone, SurfaceSeen, slotVars
  <2>2. ~Listening => told' = told \/ told' = NothingTold
    BY <1>1 DEF OwnWindow, ToplevelGone, XdgSurfaceGone, SurfaceSeen, GetXdgSurface,
       GetToplevel, GetPopup, SetTitle, FireTitle, FireToplevelsRemoved, FireRemoved
  <2> QED
    BY <2>1, <2>2 DEF SlotInv, Listening, slotVars
<1>2. ASSUME NEW ws \in SUBSET Windows, WindowsGone(ws) PROVE SlotInv'
  BY <1>2 DEF WindowsGone, FireToplevelsRemoved, FireRemoved, SlotInv, Listening, slotVars
<1>3. ASSUME NEW ws \in SUBSET Windows, ShellGoes(ws) PROVE SlotInv'
  BY <1>3 DEF ShellGoes, FreeSlot, SlotInv, Listening, NothingTold
<1>4. ASSUME NEW c \in Clients, ShellComes(c) PROVE SlotInv'
  BY <1>4 DEF ShellComes, TakeSlot, SlotInv, Listening, NothingTold
<1>5. CASE ShellReady
  BY <1>5 DEF ShellReady, SlotInv, Listening
<1>6. CASE UNCHANGED windowVars
  BY <1>6 DEF windowVars, slotVars, SlotInv, Listening, NothingTold
<1> QED
  BY <1>1, <1>2, <1>3, <1>4, <1>5, <1>6 DEF WindowNext, WindowStep

(* The walks go on finding the toplevels, for each window on its own. *)
Linked(w) ==
  /\ "reversed" \notin Teardown /\ toplevel[w].live => HasToplevel(w)
  /\ xdg[w].listed /\ toplevel[w].live => HasToplevel(w)

LEMMA LinksNext ==
  ASSUME WindowTypeOK, \A v \in Windows : Linked(v), [WindowNext]_windowVars
  PROVE  \A v \in Windows : Linked(v)'
<1> USE DEF Linked, HasToplevel
<1>1. ASSUME NEW w \in Windows, OwnWindow(w)
      PROVE  \A v \in Windows : Linked(v)'
  <2>1. CASE GetXdgSurface(w)
    <3>1. /\ ~toplevel[w].live /\ toplevel' = toplevel
          /\ xdg' = [xdg EXCEPT ![w] = [NoXdgSurface EXCEPT !.listed = TRUE,
                                                            !.wl_surface = TRUE]]
      BY <2>1 DEF GetXdgSurface
    <3> QED
      BY <3>1 DEF NoXdgSurface, WindowTypeOK
  <2>2. CASE GetToplevel(w)
    <3>1. /\ xdg[w].listed
          /\ xdg' = [xdg EXCEPT ![w].role = "toplevel", ![w].toplevel = TRUE,
                                ![w].pending_configure = TRUE]
          /\ \/ toplevel' = [toplevel EXCEPT ![w] =
                              [NoToplevel EXCEPT !.live = TRUE, !.handle = next_handle]]
             \/ toplevel' = [toplevel EXCEPT ![w] = [NoToplevel EXCEPT !.live = TRUE]]
      BY <2>2 DEF GetToplevel
    <3>2. toplevel'[w].live
      BY <3>1 DEF NoToplevel, WindowTypeOK
    <3>3. xdg'[w].listed /\ xdg'[w].role = "toplevel" /\ xdg'[w].toplevel
      BY <3>1 DEF WindowTypeOK, XdgSurfaces
    <3>4. \A v \in Windows \ {w} : toplevel'[v] = toplevel[v] /\ xdg'[v] = xdg[v]
      BY <3>1 DEF WindowTypeOK, XdgSurfaces
    <3> QED
      BY <3>2, <3>3, <3>4
  <2>3. CASE GetPopup(w)
    <3>1. /\ xdg[w].role = "none" /\ toplevel' = toplevel
          /\ xdg' = [xdg EXCEPT ![w].role = "popup", ![w].pending_configure = TRUE]
      BY <2>3 DEF GetPopup
    <3> QED
      BY <3>1 DEF WindowTypeOK, XdgSurfaces
  <2>4. ASSUME NEW t \in Titles, SetTitle(w, t)
        PROVE  \A v \in Windows : Linked(v)'
    <3>1. xdg' = xdg /\ toplevel' = [toplevel EXCEPT ![w].title = t]
      BY <2>4 DEF SetTitle
    <3> QED
      BY <3>1 DEF WindowTypeOK, Toplevels
  <2> QED
    BY <1>1, <2>1, <2>2, <2>3, <2>4 DEF OwnWindow
<1>2. ASSUME NEW w \in Windows, ToplevelGone(w)
      PROVE  \A v \in Windows : Linked(v)'
  <2>1. /\ xdg' = xdg /\ (xdg[w].listed => "split" \in Teardown)
        /\ \/ toplevel' = [toplevel EXCEPT ![w].live = FALSE]
           \/ toplevel' = [toplevel EXCEPT ![w] = NoToplevel]
    BY <1>2 DEF ToplevelGone, ToplevelFreed
  <2> QED
    BY <2>1 DEF WindowTypeOK, Toplevels, NoToplevel
<1>3. ASSUME NEW w \in Windows, XdgSurfaceGone(w)
      PROVE  \A v \in Windows : Linked(v)'
  <2>1. /\ toplevel[w].live => "reversed" \in Teardown
        /\ xdg' = [xdg EXCEPT ![w] = NoXdgSurface]
        /\ \/ toplevel' = toplevel
           \/ toplevel' = [toplevel EXCEPT ![w] = NoToplevel]
    BY <1>3 DEF XdgSurfaceGone, XdgSurfaceFreed
  <2> QED
    BY <2>1 DEF WindowTypeOK, Toplevels, NoToplevel, NoXdgSurface
<1>4. ASSUME NEW w \in Windows, SurfaceSeen(w)
      PROVE  \A v \in Windows : Linked(v)'
  <2>1. CASE WlSurfaceGone(w)
    BY <2>1 DEF WlSurfaceGone, WindowTypeOK, XdgSurfaces
  <2>2. ASSUME NEW sent \in BOOLEAN, CommitSeen(w, sent)
        PROVE  \A v \in Windows : Linked(v)'
    <3> DEFINE due == xdg[w].wl_surface /\ xdg[w].pending_configure
    <3>1. /\ xdg' = [xdg EXCEPT ![w].pending_configure = @ /\ ~due]
          /\ toplevel' = [toplevel EXCEPT
               ![w].configured = @ \/ (due /\ toplevel[w].live),
               ![w].sized = @ \/ (sent /\ toplevel[w].live)]
      BY <2>2 DEF CommitSeen
    <3> HIDE DEF due
    <3>2. \A v \in Windows : toplevel'[v].live = toplevel[v].live
      BY <3>1 DEF WindowTypeOK, Toplevels
    <3>3. \A v \in Windows : /\ HasToplevel(v)' = HasToplevel(v)
                            /\ xdg'[v].listed = xdg[v].listed
      BY <3>1 DEF WindowTypeOK, XdgSurfaces
    <3> QED
      BY <3>2, <3>3
  <2> QED
    BY <1>4, <2>1, <2>2 DEF SurfaceSeen
<1>5. ASSUME NEW ws \in SUBSET Windows, WindowsGone(ws) \/ ShellGoes(ws)
      PROVE  \A v \in Windows : Linked(v)'
  <2>1. WindowsFreed(ws) \/ UNCHANGED xdgVars
    BY <1>5 DEF WindowsGone, ShellGoes
  <2> QED
    BY <2>1 DEF WindowsFreed, xdgVars, NoToplevel, NoXdgSurface
<1>6. ASSUME NEW c \in Clients, ShellComes(c)
      PROVE  \A v \in Windows : Linked(v)'
  BY <1>6 DEF ShellComes, DemoteToplevels, WindowTypeOK, Toplevels
<1>7. CASE ShellReady \/ UNCHANGED windowVars
  BY <1>7 DEF ShellReady, windowVars, xdgVars
<1> QED
  BY <1>1, <1>2, <1>3, <1>4, <1>5, <1>6, <1>7 DEF WindowNext, WindowStep

LEMMA LinksInvNext == LinksInv /\ [Next]_vars => LinksInv'
<1> SUFFICES ASSUME LinksInv, [Next]_vars PROVE LinksInv'
  OBVIOUS
<1>1. [WindowNext]_windowVars
  BY EveryStepIsAWindowStep
<1>2. WindowTypeOK' /\ SlotInv'
  BY <1>1, NextTypes, SlotInvNext DEF LinksInv
<1>3. \A v \in Windows : Linked(v)
  BY DEF LinksInv, Linked, WalksFindToplevels,
     ListedToplevelsAreLinked
<1>4. \A v \in Windows : Linked(v)'
  BY <1>1, <1>3, LinksNext DEF LinksInv
<1> QED
  BY <1>2, <1>4 DEF LinksInv, Linked, WalksFindToplevels,
     ListedToplevelsAreLinked

THEOREM LinksInvariance == Spec => []LinksInv
BY LinksInvInit, LinksInvNext, PTL DEF Spec

-----------------------------------------------------------------------------
(* The shell does not see itself: bind demotes the windows the client made  *)
(* before, and get_toplevel gives its later ones no handle.                 *)
LEMMA SeesItselfNext ==
  ASSUME WindowTypeOK, WalksFindToplevels, "reversed" \notin Teardown,
         ShellNeverSeesItself, [WindowNext]_windowVars
  PROVE  ShellNeverSeesItself'
<1> USE DEF ShellNeverSeesItself, WindowsOf
<1>1. ASSUME NEW w \in Windows, OwnWindow(w)
      PROVE  ShellNeverSeesItself'
  <2>1. bound' = bound
    BY <1>1 DEF OwnWindow, slotVars
  <2>2. CASE GetXdgSurface(w) \/ GetPopup(w)
    BY <2>1, <2>2 DEF GetXdgSurface, GetPopup
  <2>3. CASE GetToplevel(w)
    <3>1. /\ \A v \in Windows \ {w} : toplevel'[v] = toplevel[v]
          /\ owner[w] = bound => toplevel'[w].handle = 0
      BY <2>3 DEF GetToplevel, WindowTypeOK, NoToplevel
    <3> QED
      BY <2>1, <3>1
  <2>4. ASSUME NEW t \in Titles, SetTitle(w, t)
        PROVE  ShellNeverSeesItself'
    <3>1. toplevel' = [toplevel EXCEPT ![w].title = t]
      BY <2>4 DEF SetTitle
    <3> QED
      BY <2>1, <3>1 DEF WindowTypeOK, Toplevels
  <2> QED
    BY <1>1, <2>2, <2>3, <2>4 DEF OwnWindow
<1>2. CASE \/ \E w \in Windows :
                ToplevelGone(w) \/ XdgSurfaceGone(w) \/ SurfaceSeen(w)
           \/ \E ws \in SUBSET Windows : WindowsGone(ws)
           \/ ShellReady
           \/ UNCHANGED windowVars
  <2>1. bound' = bound
    BY <1>2 DEF ToplevelGone, XdgSurfaceGone, SurfaceSeen, WindowsGone, ShellReady,
       windowVars, slotVars
  <2>2. \A v \in Windows : /\ toplevel'[v].live => toplevel[v].live
                          /\ toplevel'[v].handle \in {toplevel[v].handle, 0}
    <3>1. ASSUME NEW w \in Windows, ToplevelGone(w) \/ XdgSurfaceGone(w)
          PROVE  \/ toplevel' = toplevel
                 \/ toplevel' = [toplevel EXCEPT ![w].live = FALSE]
                 \/ toplevel' = [toplevel EXCEPT ![w] = NoToplevel]
      BY <3>1 DEF ToplevelGone, ToplevelFreed, XdgSurfaceGone, XdgSurfaceFreed
    <3>2. ASSUME NEW w \in Windows, SurfaceSeen(w)
          PROVE  \A v \in Windows : /\ toplevel'[v].live = toplevel[v].live
                                   /\ toplevel'[v].handle = toplevel[v].handle
      BY <3>2 DEF SurfaceSeen, WlSurfaceGone, CommitSeen, WindowTypeOK, Toplevels
    <3>3. ASSUME NEW ws \in SUBSET Windows, WindowsGone(ws)
          PROVE  toplevel' = [w \in Windows |-> IF w \in ws THEN NoToplevel
                                              ELSE toplevel[w]]
      BY <3>3 DEF WindowsGone, WindowsFreed
    <3> QED
      BY <1>2, <3>1, <3>2, <3>3
         DEF WindowTypeOK, Toplevels, NoToplevel, ShellReady, windowVars, xdgVars
  <2> QED
    BY <2>1, <2>2
<1>3. ASSUME NEW ws \in SUBSET Windows, ShellGoes(ws)
      PROVE  ShellNeverSeesItself'
  BY <1>3 DEF ShellGoes, FreeSlot
<1>4. ASSUME NEW c \in Clients, ShellComes(c)
      PROVE  ShellNeverSeesItself'
  <2>1. /\ bound' = c
        /\ toplevel' = [w \in Windows |->
             IF HasToplevel(w) /\ owner[w] = c /\ toplevel[w].live
             THEN [toplevel[w] EXCEPT !.handle = 0] ELSE toplevel[w]]
    BY <1>4 DEF ShellComes, TakeSlot, DemoteToplevels
  <2> QED
    BY <2>1 DEF WalksFindToplevels, WindowTypeOK, Toplevels
<1> QED
  BY <1>1, <1>2, <1>3, <1>4 DEF WindowNext, WindowStep

(* If no client destroys an xdg_surface before its toplevel, the bound      *)
(* shell has no window with a handle.                                       *)
THEOREM ShellNeverSeesItselfCorrect ==
  ASSUME "reversed" \notin Teardown
  PROVE  Spec => []ShellNeverSeesItself
<1>1. Init => ShellNeverSeesItself
  BY DEF Init, XdgInit, NoToplevel, ShellNeverSeesItself, WindowsOf
<1>2. LinksInv /\ ShellNeverSeesItself /\ [Next]_vars => ShellNeverSeesItself'
  BY EveryStepIsAWindowStep, SeesItselfNext DEF LinksInv
<1> QED
  BY <1>1, <1>2, LinksInvariance, PTL DEF Spec

-----------------------------------------------------------------------------
(* What the shell is told: the entry of a window follows the window. *)

Known(w) ==
  toplevel[w].live /\ toplevel[w].handle # 0
    => told[toplevel[w].handle] = toplevel[w].title

KnownInv ==
  ready /\ "reversed" \notin Teardown => \A w \in Windows : Known(w)

(* The handles that no window has, and the shell knows.                     *)
Unaccounted == KnownHandles \ LiveHandles

(* An entry is taken back for windows that go, and only for those. *)
LEMMA RemovalKeepsKnown ==
  ASSUME HandlesInv, SlotInv, KnownInv, NEW ws \in SUBSET Windows,
         FireToplevelsRemoved(ws), UNCHANGED slotVars,
         \A w \in ws : ~toplevel'[w].live,
         \A w \in Windows \ ws : toplevel'[w] = toplevel[w]
  PROVE  KnownInv' /\ Unaccounted' \subseteq Unaccounted
<1> DEFINE gone == {toplevel[w].handle : w \in {v \in ws : toplevel[v].live}}
<1>1. told' = IF Listening
              THEN [h \in Handles |-> IF h \in gone THEN Untold ELSE told[h]]
              ELSE told
  BY DEF FireToplevelsRemoved, FireRemoved
<1>2. \A w \in Windows : toplevel[w].live /\ toplevel[w].handle # 0
                          => toplevel[w].handle \in Handles
  BY MeekShellAssumption DEF MeekShellAssumption, HandlesInv, WindowTypeOK, Toplevels, Handles
<1>3. ASSUME ready', "reversed" \notin Teardown, NEW w \in Windows,
             toplevel'[w].live, toplevel'[w].handle # 0
      PROVE  told'[toplevel'[w].handle] = toplevel'[w].title
  <2>1. w \notin ws /\ toplevel'[w] = toplevel[w] /\ ready
    BY <1>3 DEF slotVars
  <2>2. toplevel[w].handle \notin gone
    BY <1>3, <2>1 DEF HandlesInv, HandleNamesOneWindow
  <2>3. told[toplevel[w].handle] = toplevel[w].title
    BY <1>3, <2>1 DEF KnownInv, Known
  <2> HIDE DEF gone
  <2> QED
    BY <1>1, <1>2, <1>3, <2>1, <2>2, <2>3
<1>4. ASSUME NEW h \in Handles, told'[h] # Untold, h \in LiveHandles
      PROVE  h \in LiveHandles'
  <2>1. h \notin gone
    <3>1. CASE Listening
      BY <1>1, <1>4, <3>1
    <3>2. CASE ~Listening
      BY <1>1, <1>4, <3>2 DEF SlotInv, NothingTold
    <3> QED
      BY <3>1, <3>2
  <2>2. PICK w \in Windows : toplevel[w].live /\ toplevel[w].handle = h
    BY <1>4 DEF LiveHandles
  <2>3. w \notin ws
    BY <2>1, <2>2
  <2> QED
    BY <2>2, <2>3 DEF LiveHandles
<1>5. ASSUME NEW h \in Handles, told'[h] # Untold PROVE told[h] # Untold
  BY <1>1, <1>5
<1> HIDE DEF gone
<1> QED
  BY <1>3, <1>4, <1>5 DEF KnownInv, Known, Unaccounted, KnownHandles

(* A window is added, or gets a new title. *)
LEMMA TitleKeepsKnown ==
  ASSUME HandlesInv, HandlesInv', SlotInv, KnownInv, UNCHANGED slotVars,
         NEW w \in Windows,
         toplevel'[w].live, toplevel'[w].handle # 0,
         FireTitle(toplevel'[w].handle, toplevel'[w].title),
         \A v \in Windows \ {w} : toplevel'[v] = toplevel[v],
         toplevel[w].live => toplevel'[w].handle = toplevel[w].handle
  PROVE  KnownInv' /\ Unaccounted' \subseteq Unaccounted
<1>1. toplevel'[w].handle \in Handles
  BY MeekShellAssumption DEF MeekShellAssumption, HandlesInv, WindowTypeOK, Toplevels, Handles
<1>2. told \in [Handles -> Titles \cup {Untold}]
  BY DEF HandlesInv, WindowTypeOK
<1>3. ASSUME ready', "reversed" \notin Teardown, NEW v \in Windows
      PROVE  Known(v)'
  <2>1. ready /\ told' = [told EXCEPT ![toplevel'[w].handle] = toplevel'[w].title]
    BY <1>3 DEF SlotInv, FireTitle, slotVars
  <2>2. CASE v = w
    BY <1>1, <1>2, <2>1, <2>2 DEF Known
  <2>3. CASE v # w
    <3>1. toplevel'[v] = toplevel[v] /\ Known(v)
      BY <1>3, <2>1, <2>3 DEF KnownInv
    <3>2. toplevel'[v].live => toplevel'[v].handle # toplevel'[w].handle
      BY <2>3 DEF HandlesInv, HandleNamesOneWindow
    <3> QED
      BY <1>2, <2>1, <3>1, <3>2 DEF Known
  <2> QED
    BY <2>2, <2>3
<1>4. ASSUME NEW h \in Unaccounted' PROVE h \in Unaccounted
  <2>1. h # toplevel'[w].handle
    BY <1>4 DEF Unaccounted, LiveHandles
  <2>2. h \in Handles /\ told[h] # Untold
    BY <1>2, <1>4, <2>1 DEF Unaccounted, KnownHandles, FireTitle
  <2>3. ASSUME NEW v \in Windows, toplevel[v].live, toplevel[v].handle = h PROVE FALSE
    <3>1. v # w
      BY <2>1, <2>3
    <3>2. h \in LiveHandles'
      BY <2>3, <3>1 DEF LiveHandles
    <3> QED
      BY <1>4, <3>2 DEF Unaccounted
  <2> QED
    BY <2>2, <2>3 DEF Unaccounted, KnownHandles, LiveHandles
<1> QED
  BY <1>3, <1>4 DEF KnownInv

(* What is neither told nor changes a live window changes nothing. *)
LEMMA SilenceKeepsKnown ==
  ASSUME KnownInv, UNCHANGED <<slotVars, told>>,
         \A v \in Windows :
           /\ toplevel'[v].live /\ toplevel'[v].handle # 0 => toplevel[v].live
           /\ toplevel[v].live =>
                /\ toplevel'[v].live
                /\ toplevel'[v].handle = toplevel[v].handle
                /\ toplevel[v].handle # 0 => toplevel'[v].title = toplevel[v].title
  PROVE  KnownInv' /\ Unaccounted' \subseteq Unaccounted
<1>1. ready' = ready /\ told' = told
  BY DEF slotVars
<1>2. \A v \in Windows : Known(v) => Known(v)'
  BY <1>1 DEF Known
<1>3. LiveHandles \subseteq LiveHandles'
  BY DEF LiveHandles
<1>4. KnownHandles' = KnownHandles
  BY <1>1 DEF KnownHandles
<1> QED
  BY <1>1, <1>2, <1>3, <1>4 DEF KnownInv, Unaccounted

(* announce_ready: the replay reaches every live window, and nothing else   *)
(* but what it reads in freed toplevels.                                    *)
LEMMA ReplayMakesKnown ==
  ASSUME HandlesInv, LinksInv, KnownInv, ShellReady
  PROVE  /\ KnownInv'
         /\ \A h \in Unaccounted' \ Unaccounted :
              \E w \in Windows :
                HasToplevel(w) /\ ~toplevel[w].live /\ toplevel[w].handle = h
<1>1. PICK read \in [Windows -> 0 .. MaxHandle] :
        /\ \A w \in Windows : read[w] \in (IF HasToplevel(w) THEN HandleRead(w) ELSE {0})
        /\ Replay(read)
  BY DEF ShellReady
<1> DEFINE found == {read[w] : w \in {v \in Windows : HasToplevel(v)}}
           Struct(h) == CHOOSE w \in Windows :
                          /\ toplevel[w].handle = h
                          /\ h \in LiveHandles => toplevel[w].live
<1>2. told' = [h \in Handles |->
                 IF h \in found THEN toplevel[Struct(h)].title ELSE told[h]]
  BY <1>1 DEF Replay
<1>3. UNCHANGED toplevel
  BY DEF ShellReady, xdgVars
<1>4. ASSUME "reversed" \notin Teardown, NEW w \in Windows
      PROVE  Known(w)'
  <2> SUFFICES ASSUME toplevel[w].live, toplevel[w].handle # 0
               PROVE  told'[toplevel[w].handle] = toplevel[w].title
    BY <1>3 DEF Known
  <2>1. toplevel[w].handle \in Handles
    BY MeekShellAssumption
       DEF MeekShellAssumption, HandlesInv, WindowTypeOK, Toplevels, Handles
  <2>2. toplevel[w].handle \in found
    BY <1>1, <1>4 DEF LinksInv, WalksFindToplevels, HandleRead
  <2>3. \A v \in Windows :
          /\ toplevel[v].handle = toplevel[w].handle
          /\ toplevel[w].handle \in LiveHandles => toplevel[v].live
          => v = w
    BY DEF LiveHandles, HandlesInv, HandleNamesOneWindow
  <2>4. Struct(toplevel[w].handle) = w
    BY <2>3
  <2> HIDE DEF found, Struct
  <2> QED
    BY <1>2, <2>1, <2>2, <2>4
<1>5. ASSUME NEW h \in Unaccounted', h \notin Unaccounted
      PROVE  \E w \in Windows : HasToplevel(w) /\ ~toplevel[w].live /\ toplevel[w].handle = h
  <2>1. h \in Handles /\ told'[h] # Untold /\ h \notin LiveHandles
    BY <1>3, <1>5 DEF Unaccounted, KnownHandles, LiveHandles
  <2>2. h \in found
    <3> HIDE DEF found, Struct
    <3> QED
      BY <1>2, <1>5, <2>1 DEF Unaccounted, KnownHandles
  <2>3. PICK w \in Windows : HasToplevel(w) /\ read[w] = h
    BY <2>2
  <2>4. h # 0
    BY <2>1, MeekShellAssumption DEF MeekShellAssumption, Handles
  <2>5. ~toplevel[w].live /\ toplevel[w].handle = h
    BY <1>1, <2>1, <2>3, <2>4 DEF HandleRead, LiveHandles
  <2> QED
    BY <2>3, <2>5
<1> HIDE DEF found, Struct
<1> QED
  BY <1>4, <1>5 DEF KnownInv

LEMMA OwnWindowKeepsKnown ==
  ASSUME HandlesInv, HandlesInv', LinksInv, KnownInv, NEW w \in Windows, OwnWindow(w)
  PROVE  KnownInv' /\ Unaccounted' \subseteq Unaccounted
<1> USE DEF HandlesInv
<1>1. UNCHANGED slotVars /\ SlotInv
  BY DEF OwnWindow, LinksInv
<1>2. CASE GetXdgSurface(w) \/ GetPopup(w)
  <2>1. UNCHANGED <<toplevel, told>>
    BY <1>2 DEF GetXdgSurface, GetPopup
  <2> QED
    BY <1>1, <2>1, SilenceKeepsKnown
<1>3. CASE GetToplevel(w)
  <2>1. ~toplevel[w].live
    BY <1>3 DEF GetToplevel, LinksInv, ListedToplevelsAreLinked, HasToplevel
  <2>2. CASE owner[w] # bound
    <3>1. /\ next_handle \in Handles
          /\ toplevel' = [toplevel EXCEPT ![w] =
               [NoToplevel EXCEPT !.live = TRUE, !.handle = next_handle]]
          /\ FireTitle(next_handle, NoTitle)
      BY <1>3, <2>2 DEF GetToplevel
    <3>2. /\ toplevel'[w].live
          /\ toplevel'[w].handle = next_handle
          /\ toplevel'[w].title = NoTitle
          /\ \A v \in Windows \ {w} : toplevel'[v] = toplevel[v]
      BY <3>1 DEF WindowTypeOK, NoToplevel
    <3>3. next_handle # 0
      BY <3>1, MeekShellAssumption DEF MeekShellAssumption, Handles
    <3> HIDE DEF HandlesInv
    <3> QED
      BY <1>1, <2>1, <3>1, <3>2, <3>3, TitleKeepsKnown
  <2>3. CASE owner[w] = bound
    <3>1. /\ toplevel' = [toplevel EXCEPT ![w] = [NoToplevel EXCEPT !.live = TRUE]]
          /\ told' = told
      BY <1>3, <2>3 DEF GetToplevel
    <3>2. /\ toplevel'[w].handle = 0
          /\ \A v \in Windows \ {w} : toplevel'[v] = toplevel[v]
      BY <3>1 DEF WindowTypeOK, NoToplevel
    <3> QED
      BY <1>1, <2>1, <3>1, <3>2, SilenceKeepsKnown
  <2> QED
    BY <2>2, <2>3
<1>4. ASSUME NEW t \in Titles, SetTitle(w, t)
      PROVE  KnownInv' /\ Unaccounted' \subseteq Unaccounted
  <2>1. /\ toplevel[w].live
        /\ toplevel' = [toplevel EXCEPT ![w].title = t]
        /\ IF toplevel[w].handle # 0 THEN FireTitle(toplevel[w].handle, t)
                                     ELSE told' = told
    BY <1>4 DEF SetTitle
  <2>2. /\ toplevel'[w].live
        /\ toplevel'[w].handle = toplevel[w].handle
        /\ toplevel'[w].title = t
        /\ \A v \in Windows \ {w} : toplevel'[v] = toplevel[v]
    BY <2>1 DEF WindowTypeOK, Toplevels
  <2>3. CASE toplevel[w].handle # 0
    <3> HIDE DEF HandlesInv
    <3> QED
      BY <1>1, <2>1, <2>2, <2>3, TitleKeepsKnown
  <2>4. CASE toplevel[w].handle = 0
    BY <1>1, <2>1, <2>2, <2>4, SilenceKeepsKnown
  <2> QED
    BY <2>3, <2>4
<1> QED
  BY <1>2, <1>3, <1>4 DEF OwnWindow

LEMMA KnownInvStep ==
  ASSUME HandlesInv, HandlesInv', LinksInv, KnownInv, [WindowStep]_windowVars
  PROVE  KnownInv' /\ Unaccounted' \subseteq Unaccounted
<1>1. ASSUME NEW w \in Windows, OwnWindow(w)
      PROVE  KnownInv' /\ Unaccounted' \subseteq Unaccounted
  BY <1>1, OwnWindowKeepsKnown
<1>2. ASSUME NEW w \in Windows, ToplevelGone(w)
      PROVE  KnownInv' /\ Unaccounted' \subseteq Unaccounted
  <2>1. /\ FireToplevelsRemoved({w}) /\ UNCHANGED slotVars
        /\ \/ toplevel' = [toplevel EXCEPT ![w].live = FALSE]
           \/ toplevel' = [toplevel EXCEPT ![w] = NoToplevel]
    BY <1>2 DEF ToplevelGone, ToplevelFreed
  <2>2. /\ ~toplevel'[w].live
        /\ \A v \in Windows \ {w} : toplevel'[v] = toplevel[v]
    BY <2>1 DEF HandlesInv, WindowTypeOK, Toplevels, NoToplevel
  <2>3. SlotInv /\ {w} \in SUBSET Windows
    BY DEF LinksInv
  <2> QED
    BY <2>1, <2>2, <2>3, RemovalKeepsKnown
<1>3. ASSUME NEW w \in Windows, XdgSurfaceGone(w)
      PROVE  KnownInv' /\ Unaccounted' \subseteq Unaccounted
  <2>1. /\ UNCHANGED <<slotVars, told>>
        /\ \/ toplevel' = toplevel
           \/ ~toplevel[w].live /\ toplevel' = [toplevel EXCEPT ![w] = NoToplevel]
    BY <1>3 DEF XdgSurfaceGone, XdgSurfaceFreed
  <2>2. \/ toplevel' = toplevel
        \/ /\ ~toplevel[w].live /\ ~toplevel'[w].live
           /\ \A v \in Windows \ {w} : toplevel'[v] = toplevel[v]
    BY <2>1 DEF HandlesInv, WindowTypeOK, NoToplevel
  <2> QED
    BY <2>1, <2>2, SilenceKeepsKnown
<1>4. ASSUME NEW w \in Windows, SurfaceSeen(w)
      PROVE  KnownInv' /\ Unaccounted' \subseteq Unaccounted
  <2>1. UNCHANGED <<slotVars, told>>
    BY <1>4 DEF SurfaceSeen
  <2>2. \A v \in Windows : /\ toplevel'[v].live = toplevel[v].live
                          /\ toplevel'[v].handle = toplevel[v].handle
                          /\ toplevel'[v].title = toplevel[v].title
    BY <1>4 DEF SurfaceSeen, WlSurfaceGone, CommitSeen, HandlesInv, WindowTypeOK, Toplevels
  <2> QED
    BY <2>1, <2>2, SilenceKeepsKnown
<1>5. ASSUME NEW ws \in SUBSET Windows, WindowsGone(ws)
      PROVE  KnownInv' /\ Unaccounted' \subseteq Unaccounted
  <2>1. FireToplevelsRemoved(ws) /\ UNCHANGED slotVars /\ SlotInv
    BY <1>5 DEF WindowsGone, LinksInv
  <2>2. /\ \A w \in ws : ~toplevel'[w].live
        /\ \A w \in Windows \ ws : toplevel'[w] = toplevel[w]
    BY <1>5 DEF WindowsGone, WindowsFreed, NoToplevel
  <2> QED
    BY <2>1, <2>2, RemovalKeepsKnown
<1>6. ASSUME NEW ws \in SUBSET Windows, ShellGoes(ws)
      PROVE  KnownInv' /\ Unaccounted' \subseteq Unaccounted
  BY <1>6 DEF ShellGoes, FreeSlot, NothingTold, KnownInv, KnownHandles, Unaccounted
<1>7. ASSUME NEW c \in Clients, ShellComes(c)
      PROVE  KnownInv' /\ Unaccounted' \subseteq Unaccounted
  <2>1. ~ready' /\ told' = NothingTold
    BY <1>7 DEF ShellComes, TakeSlot, LinksInv, SlotInv, Listening
  <2> QED
    BY <2>1 DEF NothingTold, KnownInv, KnownHandles, Unaccounted
<1>8. CASE UNCHANGED windowVars
  <2>1. UNCHANGED <<slotVars, told, toplevel>>
    BY <1>8 DEF windowVars, xdgVars
  <2> QED
    BY <2>1, SilenceKeepsKnown
<1> QED
  BY <1>1, <1>2, <1>3, <1>4, <1>5, <1>6, <1>7, <1>8 DEF WindowStep

THEOREM KnownInvariance == Spec => []KnownInv
<1>1. Init => KnownInv
  BY DEF Init, MeekInit, NothingTold, KnownInv, KnownHandles
<1>2. HandlesInv /\ HandlesInv' /\ LinksInv /\ KnownInv /\ [Next]_vars => KnownInv'
  BY OnlyAnnouncementsReplay, KnownInvStep, ReplayMakesKnown
<1> QED
  BY <1>1, <1>2, HandlesInvariance, LinksInvariance, PTL DEF Spec

(* An announced shell knows every live window of the others, provided no    *)
(* client destroys an xdg_surface before its toplevel.                      *)
THEOREM ShellKnowsEveryWindowCorrect ==
  ASSUME "reversed" \notin Teardown
  PROVE  Spec => []ShellKnowsEveryWindow
<1>1. KnownInv => ShellKnowsEveryWindow
  BY DEF KnownInv, Known, ShellKnowsEveryWindow
<1> QED
  BY <1>1, KnownInvariance, PTL

(* The two together: the list of an announced shell has every live window   *)
(* of the others and none of its own.                                       *)
THEOREM ShellKnowsTheOthersCorrect ==
  ASSUME "reversed" \notin Teardown
  PROVE  Spec => []ShellKnowsTheOthers
<1>1. ShellKnowsEveryWindow /\ ShellNeverSeesItself => ShellKnowsTheOthers
  BY DEF ShellKnowsTheOthers
<1> QED
  BY <1>1, ShellKnowsEveryWindowCorrect, ShellNeverSeesItselfCorrect, PTL

(* No step but a replay that finds a freed toplevel leaves the shell with a *)
(* handle that no window has and that it did not know before, in whatever   *)
(* order the objects of the windows are destroyed.                          *)
THEOREM ShellKnowsNoOtherWindowCorrect == Spec => ShellKnowsNoOtherWindow
<1>1. ASSUME HandlesInv, HandlesInv', LinksInv, KnownInv, [Next]_vars
      PROVE  \A h \in KnownHandles' \ LiveHandles' :
               h \in KnownHandles \ LiveHandles \/ ReplaysFreed(h)
  <2>1. CASE meek_shell_announce_ready /\ ShellReady
    BY <1>1, <2>1, ReplayMakesKnown DEF Unaccounted, ReplaysFreed
  <2>2. CASE [WindowStep]_windowVars
    BY <1>1, <2>2, KnownInvStep DEF Unaccounted
  <2> QED
    BY <1>1, <2>1, <2>2, OnlyAnnouncementsReplay
<1>2. HandlesInv /\ HandlesInv' /\ LinksInv /\ KnownInv /\ [Next]_vars
        => [\A h \in KnownHandles' \ LiveHandles' :
              h \in KnownHandles \ LiveHandles \/ ReplaysFreed(h)]_vars
  BY <1>1
<1> QED
  BY <1>2, HandlesInvariance, LinksInvariance, KnownInvariance, PTL
     DEF Spec, ShellKnowsNoOtherWindow

-----------------------------------------------------------------------------
(* The one configure. *)

LEMMA ConfiguredNext ==
  ASSUME WindowTypeOK, ConfiguredOnce, [WindowNext]_windowVars
  PROVE  ConfiguredOnce'
<1>1. ASSUME NEW w \in Windows,
             \A v \in Windows \ {w} : xdg'[v] = xdg[v] /\ toplevel'[v] = toplevel[v],
             toplevel'[w].live /\ HasToplevel(w)'
               => (xdg'[w].pending_configure <=> ~toplevel'[w].configured)
      PROVE  ConfiguredOnce'
  BY <1>1 DEF ConfiguredOnce, HasToplevel
<1>2. ASSUME UNCHANGED <<xdg, toplevel>> PROVE ConfiguredOnce'
  BY <1>2 DEF ConfiguredOnce, HasToplevel
<1>3. ASSUME NEW w \in Windows, OwnWindow(w) PROVE ConfiguredOnce'
  <2>1. CASE GetXdgSurface(w)
    BY <1>1, <2>1 DEF GetXdgSurface, WindowTypeOK, HasToplevel
  <2>2. CASE GetToplevel(w)
    <3>1. /\ xdg'[w].pending_configure /\ ~toplevel'[w].configured
          /\ \A v \in Windows \ {w} : xdg'[v] = xdg[v] /\ toplevel'[v] = toplevel[v]
      BY <2>2 DEF GetToplevel, WindowTypeOK, XdgSurfaces, NoToplevel
    <3> QED
      BY <1>1, <3>1
  <2>3. CASE GetPopup(w)
    <3>1. /\ xdg'[w].role = "popup"
          /\ \A v \in Windows \ {w} : xdg'[v] = xdg[v] /\ toplevel'[v] = toplevel[v]
      BY <2>3 DEF GetPopup, WindowTypeOK, XdgSurfaces
    <3> QED
      BY <1>1, <3>1 DEF HasToplevel
  <2>4. ASSUME NEW t \in Titles, SetTitle(w, t) PROVE ConfiguredOnce'
    <3>1. /\ toplevel[w].live /\ toplevel'[w].configured = toplevel[w].configured
          /\ xdg' = xdg
          /\ \A v \in Windows \ {w} : toplevel'[v] = toplevel[v]
      BY <2>4 DEF SetTitle, WindowTypeOK, Toplevels
    <3> QED
      BY <1>1, <3>1 DEF ConfiguredOnce, HasToplevel
  <2> QED
    BY <1>3, <2>1, <2>2, <2>3, <2>4 DEF OwnWindow
<1>4. ASSUME NEW w \in Windows, ToplevelGone(w) PROVE ConfiguredOnce'
  <2>1. /\ ~toplevel'[w].live /\ xdg' = xdg
        /\ \A v \in Windows \ {w} : toplevel'[v] = toplevel[v]
    BY <1>4 DEF ToplevelGone, ToplevelFreed, WindowTypeOK, Toplevels, NoToplevel
  <2> QED
    BY <1>1, <2>1
<1>5. ASSUME NEW w \in Windows, XdgSurfaceGone(w) PROVE ConfiguredOnce'
  <2>1. /\ ~xdg'[w].listed
        /\ \A v \in Windows \ {w} : xdg'[v] = xdg[v] /\ toplevel'[v] = toplevel[v]
    BY <1>5 DEF XdgSurfaceGone, XdgSurfaceFreed, WindowTypeOK, NoXdgSurface
  <2> QED
    BY <1>1, <2>1 DEF HasToplevel
<1>6. ASSUME NEW w \in Windows, SurfaceSeen(w) PROVE ConfiguredOnce'
  <2>1. CASE WlSurfaceGone(w)
    <3>1. /\ toplevel' = toplevel /\ xdg'[w].pending_configure = xdg[w].pending_configure
          /\ xdg'[w].listed = xdg[w].listed /\ xdg'[w].role = xdg[w].role
          /\ xdg'[w].toplevel = xdg[w].toplevel
          /\ \A v \in Windows \ {w} : xdg'[v] = xdg[v]
      BY <2>1 DEF WlSurfaceGone, WindowTypeOK, XdgSurfaces
    <3> QED
      BY <1>1, <3>1 DEF ConfiguredOnce, HasToplevel
  <2>2. ASSUME NEW sent \in BOOLEAN, CommitSeen(w, sent) PROVE ConfiguredOnce'
    <3> DEFINE due == xdg[w].wl_surface /\ xdg[w].pending_configure
    <3>1. /\ \A v \in Windows \ {w} : xdg'[v] = xdg[v] /\ toplevel'[v] = toplevel[v]
          /\ xdg'[w].listed = xdg[w].listed /\ xdg'[w].role = xdg[w].role
          /\ xdg'[w].toplevel = xdg[w].toplevel
          /\ toplevel'[w].live = toplevel[w].live
      BY <2>2 DEF CommitSeen, WindowTypeOK, XdgSurfaces, Toplevels
    <3>2. xdg'[w].pending_configure = (xdg[w].pending_configure /\ ~due)
      BY <2>2 DEF CommitSeen, WindowTypeOK, XdgSurfaces
    <3>3. toplevel'[w].configured = (toplevel[w].configured \/ (due /\ toplevel[w].live))
      BY <2>2 DEF CommitSeen, WindowTypeOK, Toplevels
    <3>4. toplevel[w].live /\ HasToplevel(w)
            => (xdg[w].pending_configure <=> ~toplevel[w].configured)
      BY DEF ConfiguredOnce
    <3>5. toplevel'[w].live /\ HasToplevel(w)'
            => (xdg'[w].pending_configure <=> ~toplevel'[w].configured)
      BY <3>1, <3>2, <3>3, <3>4 DEF HasToplevel
    <3> QED
      BY <1>1, <3>1, <3>5
  <2> QED
    BY <1>6, <2>1, <2>2 DEF SurfaceSeen
<1>7. ASSUME NEW ws \in SUBSET Windows, WindowsFreed(ws) PROVE ConfiguredOnce'
  <2>1. /\ \A w \in ws : ~toplevel'[w].live
        /\ \A w \in Windows \ ws : xdg'[w] = xdg[w] /\ toplevel'[w] = toplevel[w]
    BY <1>7 DEF WindowsFreed, NoToplevel
  <2> QED
    BY <2>1 DEF ConfiguredOnce, HasToplevel
<1>8. ASSUME NEW c \in Clients, ShellComes(c) PROVE ConfiguredOnce'
  <2>1. /\ xdg' = xdg
        /\ \A w \in Windows : /\ toplevel'[w].live = toplevel[w].live
                               /\ toplevel'[w].configured = toplevel[w].configured
    BY <1>8 DEF ShellComes, DemoteToplevels, WindowTypeOK, Toplevels
  <2> QED
    BY <2>1 DEF ConfiguredOnce, HasToplevel
<1> QED
  BY <1>2, <1>3, <1>4, <1>5, <1>6, <1>7, <1>8
     DEF WindowNext, WindowStep, WindowsGone, ShellGoes, ShellReady, windowVars, xdgVars

(* A live toplevel waits for its one configure or has had it, whatever     *)
(* order the objects of its window come and go in.                         *)
THEOREM ConfiguredOnceCorrect == Spec => []ConfiguredOnce
<1>1. Init => ConfiguredOnce
  BY DEF Init, XdgInit, NoToplevel, ConfiguredOnce
<1>2. WindowTypeOK /\ ConfiguredOnce /\ [Next]_vars => ConfiguredOnce'
  BY EveryStepIsAWindowStep, ConfiguredNext
<1> QED
  BY <1>1, <1>2, WindowTypeCorrect, PTL DEF Spec
=============================================================================
