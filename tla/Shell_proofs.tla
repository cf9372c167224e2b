----------------------------- MODULE Shell_proofs -----------------------------
(***************************************************************************)
(* Proofs about Shell: what meek-shell keeps true of its registry, its     *)
(* cards, its fullscreen view, its touches and its render gate, for every  *)
(* number of windows, buffers, cards, textures, fingers and events in      *)
(* flight.                                                                 *)
(***************************************************************************)
EXTENDS Shell, FiniteSetTheorems, TLAPS

USE ShellViewAssumption, UnregisteredAssumption, ShellClientAssumption,
    FreeNodeAssumption, ShellTouchAssumption, CardsAssumption, ShellAssumption

-----------------------------------------------------------------------------
(* What a step does to the view. *)

(* What a touch can do to it, whichever of its three readers acts on it.    *)
TouchMoves ==
  \/ NoClickEffect
  \/ \E h : OnTileTap(h)
  \/ OnAppTileTap
  \/ OnTaskSwitcherBgTap
  \/ \E long_fast \in BOOLEAN, visible \in BOOLEAN : OnSwipeUpBottom(long_fast, visible)

LEMMA ClickMoves ==
  ASSUME NEW n, Click(n)
  PROVE  TouchMoves
BY DEF Click, TouchMoves

LEMMA TouchedMoves ==
  ASSUME TypeOK, Touched
  PROVE  /\ TouchMoves
         /\ UNCHANGED <<envVars, chan, phase, dropped, registry, view, linger,
                        clientVars>>
<1> USE DEF NoClickEffect, navVars
<1> switcher \in BOOLEAN BY DEF TypeOK, ViewTypeOK
<1>1. PICK f \in Fingers :
        \/ \E n \in Nodes, bottom \in BOOLEAN : TouchDown(f, n, bottom)
        \/ \E move \in Moves : TouchMotion(f, move)
        \/ TouchUp(f)
        \/ TouchCancel
  BY DEF Touched
<1>2. UNCHANGED <<envVars, chan, phase, dropped>>
  BY DEF Touched
<1>3. ASSUME NEW n \in Nodes, NEW bottom \in BOOLEAN, TouchDown(f, n, bottom)
      PROVE  TouchMoves /\ UNCHANGED <<registry, view, linger, clientVars>>
  BY <1>3 DEF TouchDown, TouchMoves
<1>4. ASSUME NEW move \in Moves, TouchMotion(f, move)
      PROVE  TouchMoves /\ UNCHANGED <<registry, view, linger, clientVars>>
  BY <1>4 DEF TouchMotion, TouchMoves
<1>5. ASSUME TouchUp(f)
      PROVE  TouchMoves /\ UNCHANGED <<view, linger, clientVars>>
  <2>1. PICK clicks \in Clicks(f) : Released(f, clicks)
    BY <1>5 DEF TouchUp
  <2>2. UNCHANGED <<view, linger, clientVars>>
    BY <1>5 DEF TouchUp
  <2>3. CASE Recognized(f)
    <3>1. PICK long_fast \in BOOLEAN :
            OnSwipeUpBottom(long_fast, switcher /\ ~(clicks /\ pressed = "switcher_bg"))
      BY <2>1, <2>3 DEF Released
    <3>2. (switcher /\ ~(clicks /\ pressed = "switcher_bg")) \in BOOLEAN
      OBVIOUS
    <3> QED BY <3>1, <3>2, <2>2 DEF TouchMoves
  <2>4. CASE ~Recognized(f)
    BY <2>1, <2>2, <2>4, ClickMoves DEF Released, TouchMoves
  <2> QED BY <2>3, <2>4
<1>6. ASSUME TouchCancel
      PROVE  TouchMoves /\ UNCHANGED <<view, linger, clientVars>>
  BY <1>6, ClickMoves DEF TouchCancel, TouchMoves
<1>7. TouchMoves /\ UNCHANGED <<view, linger, clientVars>>
  BY <1>1, <1>3, <1>4, <1>5, <1>6
<1>8. UNCHANGED registry
  BY <1>7 DEF TouchMoves, OnTileTap, OnAppTileTap, OnTaskSwitcherBgTap, OnSwipeUpBottom
<1> QED BY <1>2, <1>7, <1>8

-----------------------------------------------------------------------------
(* Types. *)

EventTypes == {"added", "title", "removed", "buffer", "buffer_shm", "forgotten",
               "ime_on", "ime_off", "synced"}
Events == [type : EventTypes, handle : 0 .. MaxHandle, title : Titles,
           id : 0 .. MaxBufferId]

(* An event names the window it is about, and the buffer it brings.         *)
Names(m) ==
  /\ m.type \in {"added", "title", "removed", "buffer", "buffer_shm"} =>
       m.handle \in Handles
  /\ m.type \in {"buffer", "buffer_shm", "forgotten"} => m.id \in BufferIds
EventsNameThings == \A i \in DOMAIN chan : Names(chan[i])

LEMMA RemovedType ==
  ASSUME NEW S, NEW s \in Seq(S), NEW i \in DOMAIN s
  PROVE  RemoveAt(s, i) \in Seq(S) /\ Len(RemoveAt(s, i)) = Len(s) - 1
<1>1. i \in 1 .. Len(s) /\ Len(s) \in Nat
  OBVIOUS
<1>2. SubSeq(s, 1, i - 1) \in Seq(S) /\ Len(SubSeq(s, 1, i - 1)) = i - 1
  BY <1>1
<1>3. SubSeq(s, i + 1, Len(s)) \in Seq(S) /\ Len(SubSeq(s, i + 1, Len(s))) = Len(s) - i
  BY <1>1
<1>4. ASSUME NEW a \in Seq(S), NEW b \in Seq(S)
      PROVE  a \o b \in Seq(S) /\ Len(a \o b) = Len(a) + Len(b)
  OBVIOUS
<1> DEFINE a == SubSeq(s, 1, i - 1)
           b == SubSeq(s, i + 1, Len(s))
<1>5. RemoveAt(s, i) = a \o b
  BY DEF RemoveAt
<1>6. a \o b \in Seq(S) /\ Len(a \o b) = (i - 1) + (Len(s) - i)
  BY <1>2, <1>3, <1>4
<1> HIDE DEF a, b
<1>7. Len(a \o b) = Len(s) - 1
  BY <1>1, <1>6
<1> QED BY <1>5, <1>6, <1>7

LEMMA CacheTypes ==
  ASSUME ClientTypeOK, NEW i \in DOMAIN cache
  PROVE  /\ cache[i] \in [id : BufferIds, texture : Textures]
         /\ cache[i].texture \in Textures
<1>1. i \in 1 .. Len(cache)
  BY DEF ClientTypeOK
<1>2. ASSUME NEW S, cache \in Seq(S) PROVE cache[i] \in S
  BY <1>1, <1>2
<1>3. cache[i] \in [id : BufferIds, texture : Textures]
  BY <1>2 DEF ClientTypeOK
<1> QED BY <1>3

LEMMA OldestTypes ==
  ASSUME ClientTypeOK
  PROVE  FreeTextures \cup Oldest \in SUBSET Textures
<1>1. Len(cache) = CacheMax => 1 \in DOMAIN cache /\ Head(cache) = cache[1]
  BY DEF ClientTypeOK
<1>2. Oldest \in SUBSET Textures
  BY <1>1, CacheTypes DEF Oldest
<1> QED BY <1>2 DEF FreeTextures

LEMMA EntryTypes ==
  ASSUME NEW e \in Entries
  PROVE  /\ e.title \in Titles /\ e.texture \in AnyTexture
         /\ e.card \in Cards \cup {NoCard}
         /\ \A t \in AnyTexture : [e EXCEPT !.texture = t] \in Entries
         /\ \A t \in Titles : [e EXCEPT !.title = t] \in Entries
BY DEF Entries

LEMMA TileTypes ==
  ASSUME NEW e \in Tiles
  PROVE  /\ e.handle \in Handles /\ e.label \in Titles /\ e.texture \in AnyTexture
         /\ \A t \in AnyTexture : [e EXCEPT !.texture = t] \in Tiles
         /\ \A t \in Titles : [e EXCEPT !.label = t] \in Tiles
BY DEF Tiles

LEMMA EntryOf ==
  ASSUME ViewTypeOK, NEW h \in Registered
  PROVE  h \in Handles /\ registry[h] \in Entries
BY DEF ViewTypeOK, Registered

LEMMA DisplayTypes ==
  ASSUME ViewTypeOK
  PROVE  /\ [display EXCEPT !.fullscreen = TRUE, !.home = FALSE] \in Views
         /\ [display EXCEPT !.fullscreen = FALSE, !.home = TRUE] \in Views
BY DEF ViewTypeOK, Views

LEMMA ShowFullscreenTypes ==
  ASSUME ViewTypeOK, NEW h \in Handles, NEW t \in AnyTexture, ShowFullscreen(h, t)
  PROVE  /\ focused' \in 0 .. MaxHandle /\ display' \in Views /\ redirect' \in BOOLEAN
         /\ app' \in [handle : 0 .. MaxHandle, texture : AnyTexture]
BY DisplayTypes DEF ShowFullscreen, Handles

LEMMA ShowSwitcherTypes ==
  ASSUME ViewTypeOK, ShowSwitcher
  PROVE  focused' \in 0 .. MaxHandle /\ display' \in Views /\ redirect' \in BOOLEAN
<1>1. 0 \in 0 .. MaxHandle
  OBVIOUS
<1> QED BY <1>1, DisplayTypes DEF ShowSwitcher

LEMMA WantedTypes ==
  ASSUME ViewTypeOK, NEW swiping \in BOOLEAN
  PROVE  Wanted(swiping) \in Views
BY DEF ViewTypeOK, Wanted, Views

(* The handlers of ShellClient. *)
LEMMA AddedTypes ==
  ASSUME ViewTypeOK, ClientTypeOK, NEW h \in Handles, NEW t \in Titles,
         OnToplevelAdded(h, t)
  PROVE  ViewTypeOK' /\ ClientTypeOK'
<1>1. CASE Full /\ h \notin Registered
  BY <1>1 DEF OnToplevelAdded, ViewTypeOK, ClientTypeOK, viewVars, clientVars
<1>2. CASE ~(Full /\ h \notin Registered)
  <2> DEFINE texture == IF h \in Registered THEN registry[h].texture ELSE NoTexture
  <2>1. texture \in AnyTexture
    BY EntryOf, EntryTypes DEF AnyTexture
  <2>2. PICK c \in CardAddresses :
          /\ registry' = [registry EXCEPT ![h] =
                              [title |-> t, texture |-> texture, card |-> c]]
          /\ deck' = IF c = NoCard THEN deck
                       ELSE [deck EXCEPT ![c] =
                               [handle |-> h, label |-> t, texture |-> NoTexture]]
          /\ \E in_time \in (IF launch THEN BOOLEAN ELSE {FALSE}) :
                 /\ IF in_time THEN ShowFullscreen(h, texture)
                               ELSE UNCHANGED <<navVars, app>>
                 /\ anim' = (in_time \/ (anim /\ ~launch))
    BY <1>2 DEF OnToplevelAdded
  <2> HIDE DEF texture
  <2>3. c \in Cards \cup {NoCard}
    BY DEF CardAddresses
  <2>4. registry' \in [Handles -> Entries \cup {Unregistered}]
    <3>1. [title |-> t, texture |-> texture, card |-> c] \in Entries
      BY <2>1, <2>3 DEF Entries
    <3> QED BY <2>2, <3>1 DEF ViewTypeOK
  <2>5. deck' \in [Cards -> Tiles \cup {FreeNode}]
    <3>1. [handle |-> h, label |-> t, texture |-> NoTexture] \in Tiles
      BY DEF Tiles, AnyTexture
    <3> QED BY <2>2, <2>3, <3>1 DEF ClientTypeOK
  <2>6. /\ focused' \in 0 .. MaxHandle /\ display' \in Views /\ redirect' \in BOOLEAN
        /\ app' \in [handle : 0 .. MaxHandle, texture : AnyTexture]
    BY <2>2, <2>1, ShowFullscreenTypes DEF navVars, ViewTypeOK
  <2>7. anim' \in BOOLEAN
    BY <2>2 DEF ViewTypeOK
  <2>8. /\ launch' = FALSE /\ force_render' = TRUE
        /\ UNCHANGED <<switcher, view, linger, scene, textureVars>>
    BY <1>2 DEF OnToplevelAdded, RequestRender
  <2> QED BY <2>4, <2>5, <2>6, <2>7, <2>8 DEF ViewTypeOK, ClientTypeOK, textureVars
<1> QED BY <1>1, <1>2

LEMMA TitleTypes ==
  ASSUME ViewTypeOK, ClientTypeOK, NEW h \in Handles, NEW t \in Titles,
         OnToplevelTitleChanged(h, t)
  PROVE  ViewTypeOK' /\ ClientTypeOK'
<1> USE DEF OnToplevelTitleChanged
<1>1. registry' \in [Handles -> Entries \cup {Unregistered}]
  BY EntryOf, EntryTypes DEF ViewTypeOK
<1>2. deck' \in [Cards -> Tiles \cup {FreeNode}]
  <2>1. ASSUME NEW c \in InDeck PROVE [deck[c] EXCEPT !.label = t] \in Tiles
    BY TileTypes DEF InDeck, ClientTypeOK
  <2> QED BY <2>1 DEF ClientTypeOK
<1>3. force_render' \in BOOLEAN
  BY DEF WakeFor, Visible, ViewTypeOK
<1> QED BY <1>1, <1>2, <1>3 DEF ViewTypeOK, ClientTypeOK, navVars, textureVars

LEMMA RemovedTypes ==
  ASSUME ViewTypeOK, ClientTypeOK, NEW h \in Handles, OnToplevelRemoved(h)
  PROVE  ViewTypeOK' /\ ClientTypeOK'
<1> USE DEF OnToplevelRemoved
<1>1. registry' \in [Handles -> Entries \cup {Unregistered}]
  BY DEF ViewTypeOK
<1>2. deck' \in [Cards -> Tiles \cup {FreeNode}]
  BY DEF ClientTypeOK
<1>3. focused' \in 0 .. MaxHandle /\ display' \in Views /\ redirect' \in BOOLEAN
  BY ShowSwitcherTypes DEF navVars, ViewTypeOK
<1> QED BY <1>1, <1>2, <1>3 DEF ViewTypeOK, ClientTypeOK, textureVars, RequestRender

LEMMA BufferTypes ==
  ASSUME ViewTypeOK, ClientTypeOK, NEW h \in Handles, NEW id \in BufferIds,
         NEW fresh \in SUBSET Textures, NEW fails, BufferArrives(h, id, fresh, fails)
  PROVE  ViewTypeOK' /\ ClientTypeOK'
<1> DEFINE e == IF h \in Registered THEN registry[h]
                ELSE [title |-> Untitled, texture |-> NoTexture, card |-> NoCard]
<1>0. e \in Entries
  BY EntryOf DEF Entries, AnyTexture
<1>1. UNCHANGED <<navVars, switcher, launch, anim, view, linger, scene>>
  BY DEF BufferArrives
<1>2. CASE UNCHANGED <<registry, app, deck, textureVars, force_render>>
  BY <1>1, <1>2 DEF ViewTypeOK, ClientTypeOK, textureVars, navVars
<1>3. ASSUME NEW t \in Textures, ShowTexture(h, e, t)
      PROVE  ViewTypeOK' /\ deck' \in [Cards -> Tiles \cup {FreeNode}]
  <2> HIDE DEF e
  <2>1. registry' \in [Handles -> Entries \cup {Unregistered}]
    <3>1. [e EXCEPT !.texture = t] \in Entries
      BY <1>0, EntryTypes DEF AnyTexture
    <3> QED BY <1>3, <3>1 DEF ShowTexture, ViewTypeOK
  <2>2. deck' \in [Cards -> Tiles \cup {FreeNode}]
    <3>1. ASSUME NEW c \in InDeck PROVE [deck[c] EXCEPT !.texture = t] \in Tiles
      BY TileTypes DEF InDeck, ClientTypeOK, AnyTexture
    <3> QED BY <1>3, <3>1 DEF ShowTexture, ClientTypeOK
  <2>3. app' \in [handle : 0 .. MaxHandle, texture : AnyTexture]
    <3>1. app \in [handle : 0 .. MaxHandle, texture : AnyTexture] /\ t \in AnyTexture
      BY DEF ViewTypeOK, AnyTexture
    <3> QED BY <1>3, <3>1 DEF ShowTexture
  <2>4. force_render' \in BOOLEAN
    BY <1>3 DEF ShowTexture, WakeFor, Visible, ViewTypeOK
  <2> QED BY <1>1, <2>1, <2>2, <2>3, <2>4 DEF ViewTypeOK, navVars
<1>4. CASE /\ Cached(id) # {} /\ Hit(id)
           /\ \E i \in Cached(id) : ShowTexture(h, e, cache[i].texture)
  <2> HIDE DEF e
  <2>1. PICK i \in Cached(id) : ShowTexture(h, e, cache[i].texture)
    BY <1>4
  <2>2. cache[i].texture \in Textures
    BY CacheTypes DEF Cached
  <2>3. PICK j \in Cached(id) :
          cache' = Append(RemoveAt(cache, j), cache[j]) /\ gl' = gl
    BY <1>4 DEF Hit
  <2>4. /\ RemoveAt(cache, j) \in Seq([id : BufferIds, texture : Textures])
        /\ Len(RemoveAt(cache, j)) = Len(cache) - 1
    BY RemovedType DEF Cached, ClientTypeOK
  <2>5. cache[j] \in [id : BufferIds, texture : Textures]
    BY CacheTypes DEF Cached
  <2>6. cache' \in Seq([id : BufferIds, texture : Textures]) /\ Len(cache') = Len(cache)
    BY <2>3, <2>4, <2>5 DEF ClientTypeOK
  <2> QED BY <1>1, <1>3, <2>1, <2>2, <2>3, <2>6 DEF ClientTypeOK
<1>5. ASSUME NEW t \in fresh, Imported(h, id, t), ShowTexture(h, e, t)
      PROVE  ViewTypeOK' /\ ClientTypeOK'
  <2> HIDE DEF e
  <2>1. /\ Evicted \in Seq([id : BufferIds, texture : Textures])
        /\ Len(Evicted) < CacheMax
    BY DEF Evicted, ClientTypeOK
  <2>2. [id |-> id, texture |-> t] \in [id : BufferIds, texture : Textures]
    OBVIOUS
  <2>3. cache' \in Seq([id : BufferIds, texture : Textures]) /\ Len(cache') <= CacheMax
    BY <1>5, <2>1, <2>2 DEF Imported
  <2>4. gl' \in [Textures -> 0 .. MaxHandle]
    BY <1>5 DEF Imported, ClientTypeOK, Handles
  <2> QED BY <1>1, <1>3, <1>5, <2>3, <2>4 DEF ClientTypeOK
<1>6. CASE ImportFailed(h, e)
  <2> HIDE DEF e
  <2>1. registry' \in [Handles -> Entries \cup {Unregistered}]
    BY <1>0, <1>6 DEF ImportFailed, ViewTypeOK
  <2> QED BY <1>1, <1>6, <2>1 DEF ImportFailed, ViewTypeOK, ClientTypeOK, textureVars, navVars
<1> QED BY <1>2, <1>4, <1>5, <1>6 DEF BufferArrives

LEMMA ForgottenTypes ==
  ASSUME ViewTypeOK, ClientTypeOK, NEW id \in BufferIds, OnBufferForgotten(id)
  PROVE  ViewTypeOK' /\ ClientTypeOK'
<1>1. UNCHANGED <<registry, navVars, app, switcher, launch, anim, view, linger,
                  scene, deck>>
  BY DEF OnBufferForgotten
<1>2. CASE UNCHANGED <<textureVars, force_render>>
  BY <1>1, <1>2 DEF ViewTypeOK, ClientTypeOK, textureVars, navVars
<1>3. ASSUME NEW i \in Cached(id), cache' = RemoveAt(cache, i),
             gl' = [gl EXCEPT ![cache[i].texture] = 0], RequestRender
      PROVE  ViewTypeOK' /\ ClientTypeOK'
  <2>1. /\ RemoveAt(cache, i) \in Seq([id : BufferIds, texture : Textures])
        /\ Len(RemoveAt(cache, i)) = Len(cache) - 1
    BY RemovedType DEF Cached, ClientTypeOK
  <2>2. Len(cache) \in Nat
    BY DEF ClientTypeOK
  <2>3. gl' \in [Textures -> 0 .. MaxHandle]
    <3>1. 0 \in 0 .. MaxHandle
      OBVIOUS
    <3> QED BY <1>3, <3>1 DEF ClientTypeOK
  <2> QED BY <1>1, <1>3, <2>1, <2>2, <2>3 DEF ViewTypeOK, ClientTypeOK, RequestRender, navVars
<1> QED BY <1>2, <1>3 DEF OnBufferForgotten

LEMMA HandlerTypes ==
  ASSUME TypeOK, NEW m \in Events, Names(m), Handle(m)
  PROVE  ViewTypeOK' /\ ClientTypeOK'
<1> USE DEF TypeOK, Events, Names
<1>1. CASE m.type = "added" /\ OnToplevelAdded(m.handle, m.title)
  BY <1>1, AddedTypes
<1>2. CASE m.type = "title" /\ OnToplevelTitleChanged(m.handle, m.title)
  BY <1>2, TitleTypes
<1>3. CASE m.type = "removed" /\ OnToplevelRemoved(m.handle)
  BY <1>3, RemovedTypes
<1>4. CASE m.type = "buffer" /\ OnToplevelBuffer(m.handle, m.id, ImportFails)
  <2>1. FreeTextures \in SUBSET Textures
    BY DEF FreeTextures
  <2> QED BY <1>4, <2>1, BufferTypes DEF OnToplevelBuffer
<1>5. CASE m.type = "buffer_shm" /\ OnToplevelBufferShm(m.handle, m.id, ImportFails)
  BY <1>5, OldestTypes, BufferTypes DEF OnToplevelBufferShm
<1>6. CASE m.type = "forgotten" /\ OnBufferForgotten(m.id)
  BY <1>6, ForgottenTypes
<1>7. CASE \E on \in BOOLEAN : OnImeRequest(on)
  BY <1>7 DEF OnImeRequest, RequestRender, ViewTypeOK, ClientTypeOK, clientVars
<1> QED BY <1>1, <1>2, <1>3, <1>4, <1>5, <1>6, <1>7 DEF Handle

(* Touches. *)
LEMMA MoveTypes ==
  ASSUME ViewTypeOK, TouchMoves, force_render' \in BOOLEAN,
         UNCHANGED <<registry, view, linger>>
  PROVE  ViewTypeOK'
<1> USE DEF navVars
<1>1. CASE NoClickEffect
  BY <1>1 DEF NoClickEffect, ViewTypeOK
<1>2. ASSUME NEW h, OnTileTap(h) PROVE ViewTypeOK'
  <2>1. CASE h \in Registered
    <3>1. h \in Handles /\ registry[h].texture \in AnyTexture
      BY <2>1, EntryOf, EntryTypes
    <3>2. ShowFullscreen(h, registry[h].texture)
      BY <1>2, <2>1 DEF OnTileTap
    <3>3. /\ focused' \in 0 .. MaxHandle /\ display' \in Views /\ redirect' \in BOOLEAN
          /\ app' \in [handle : 0 .. MaxHandle, texture : AnyTexture]
      BY <3>1, <3>2, ShowFullscreenTypes
    <3> QED BY <1>2, <3>3 DEF OnTileTap, ViewTypeOK
  <2>2. CASE h \notin Registered
    BY <1>2, <2>2 DEF OnTileTap, ViewTypeOK
  <2> QED BY <2>1, <2>2
<1>3. CASE OnAppTileTap
  <2>1. EmptyApp \in [handle : 0 .. MaxHandle, texture : AnyTexture]
    <3>1. 0 \in 0 .. MaxHandle
      OBVIOUS
    <3> QED BY <3>1 DEF EmptyApp, AnyTexture
  <2> QED BY <1>3, <2>1 DEF OnAppTileTap, ViewTypeOK
<1>4. CASE OnTaskSwitcherBgTap
  BY <1>4 DEF OnTaskSwitcherBgTap, ViewTypeOK
<1>5. ASSUME NEW long_fast \in BOOLEAN, NEW visible \in BOOLEAN,
             OnSwipeUpBottom(long_fast, visible)
      PROVE  ViewTypeOK'
  <2>1. focused' \in 0 .. MaxHandle /\ display' \in Views /\ redirect' \in BOOLEAN
    BY <1>5, ShowSwitcherTypes DEF OnSwipeUpBottom, ViewTypeOK
  <2> QED BY <1>5, <2>1 DEF OnSwipeUpBottom, ViewTypeOK
<1> QED BY <1>1, <1>2, <1>3, <1>4, <1>5 DEF TouchMoves

LEMMA TouchDownTypes ==
  ASSUME TypeOK, NEW f \in Fingers, NEW n \in Nodes, NEW bottom \in BOOLEAN,
         TouchDown(f, n, bottom)
  PROVE  TouchTypeOK' /\ force_render' \in BOOLEAN
<1> USE DEF TypeOK, TouchTypeOK, TouchDown
<1>1. /\ touch_active_id' \in Fingers \cup {NoFinger} /\ pressed' \in Nodes
      /\ force_render' \in BOOLEAN
  BY DEF PressBy, RequestRender, ViewTypeOK
<1>2. slot0' \in [active : BOOLEAN, id : Fingers \cup {0}, bottom : BOOLEAN, last : Places]
  BY DEF GestureDown, Places
<1>3. drag' \in [active : BOOLEAN, card : Cards \cup {NoCard}, handle : 0 .. MaxHandle,
                 axis : {"none", "horizontal", "vertical"}, last : Places]
  <2>1. n \in Cards => n \in InDeck
    BY CardsAssumption DEF HitTest, Controls
  <2>2. n \in Cards => deck[n].handle \in 0 .. MaxHandle
    BY <2>1, SMTT(30), TileTypes DEF InDeck, ClientTypeOK, Handles
  <2>3. 0 \in 0 .. MaxHandle /\ "none" \in Places
    BY DEF Places
  <2>4. CASE f # 0 \/ ~switcher
    BY <2>4 DEF DragDown
  <2>5. CASE ~(f # 0 \/ ~switcher)
    <3> DEFINE c == IF n \in Cards THEN n ELSE NoCard
               h == IF n \in Cards THEN deck[n].handle ELSE 0
    <3>1. drag' = [active |-> TRUE, axis |-> "none", last |-> "none", card |-> c,
                   handle |-> h]
      BY <2>5 DEF DragDown
    <3>2. c \in Cards \cup {NoCard} /\ h \in 0 .. MaxHandle
      BY <2>2, <2>3
    <3> HIDE DEF c, h
    <3> QED BY <3>1, <3>2, <2>3
  <2> QED BY <2>4, <2>5
<1>4. fingers' \in SUBSET Fingers /\ both' \in SUBSET Fingers
  OBVIOUS
<1> QED BY <1>1, <1>2, <1>3, <1>4

LEMMA TouchMotionTypes ==
  ASSUME TypeOK, NEW f \in Fingers, NEW move \in Moves, TouchMotion(f, move)
  PROVE  TouchTypeOK' /\ force_render' \in BOOLEAN
<1> USE DEF TypeOK, TouchTypeOK, TouchMotion
<1>1. move \in Places
  BY DEF Places
<1>2. slot0' \in [active : BOOLEAN, id : Fingers \cup {0}, bottom : BOOLEAN, last : Places]
  BY <1>1
<1>3. drag' \in [active : BOOLEAN, card : Cards \cup {NoCard}, handle : 0 .. MaxHandle,
                 axis : {"none", "horizontal", "vertical"}, last : Places]
  BY <1>1
<1>4. /\ fingers' \in SUBSET Fingers /\ both' \in SUBSET Fingers
      /\ touch_active_id' \in Fingers \cup {NoFinger} /\ pressed' \in Nodes
  BY DEF Nodes
<1>5. force_render' \in BOOLEAN
  BY DEF ViewTypeOK
<1> QED BY <1>2, <1>3, <1>4, <1>5

LEMMA NoTouchTypes ==
  /\ NoTouch \in [active : BOOLEAN, id : Fingers \cup {0}, bottom : BOOLEAN, last : Places]
  /\ NoDrag \in [active : BOOLEAN, card : Cards \cup {NoCard}, handle : 0 .. MaxHandle,
                 axis : {"none", "horizontal", "vertical"}, last : Places]
<1>1. 0 \in 0 .. MaxHandle
  OBVIOUS
<1> QED BY <1>1 DEF NoTouch, NoDrag, Places

LEMMA TouchUpTypes ==
  ASSUME TypeOK, NEW f \in Fingers, TouchUp(f)
  PROVE  TouchTypeOK' /\ force_render' \in BOOLEAN
<1> USE DEF TypeOK, TouchTypeOK, TouchUp
<1>1. both' \in SUBSET Fingers
  OBVIOUS
<1>2. touch_active_id' \in Fingers \cup {NoFinger} /\ pressed' \in Nodes
  BY DEF Nodes
<1>3. /\ slot0' \in [active : BOOLEAN, id : Fingers \cup {0}, bottom : BOOLEAN, last : Places]
      /\ drag' \in [active : BOOLEAN, card : Cards \cup {NoCard}, handle : 0 .. MaxHandle,
                 axis : {"none", "horizontal", "vertical"}, last : Places]
  BY NoTouchTypes
<1>4. fingers' \in SUBSET Fingers /\ force_render' \in BOOLEAN
  BY DEF RequestRender
<1> QED BY <1>1, <1>2, <1>3, <1>4

LEMMA TouchCancelTypes ==
  ASSUME TypeOK, TouchCancel
  PROVE  TouchTypeOK' /\ force_render' \in BOOLEAN
<1> USE DEF TypeOK, TouchTypeOK, TouchCancel
<1>1. both' \in SUBSET Fingers
  OBVIOUS
<1>2. touch_active_id' \in Fingers \cup {NoFinger} /\ pressed' \in Nodes
  BY DEF Nodes
<1>3. fingers' \in SUBSET Fingers /\ force_render' \in BOOLEAN
  BY DEF RequestRender, ViewTypeOK
<1> QED BY <1>1, <1>2, <1>3

LEMMA TouchedTypes ==
  ASSUME TypeOK, Touched
  PROVE  ViewTypeOK' /\ ClientTypeOK' /\ TouchTypeOK'
<1>1. TouchTypeOK' /\ force_render' \in BOOLEAN
  BY TouchDownTypes, TouchMotionTypes, TouchUpTypes, TouchCancelTypes DEF Touched
<1>2. /\ TouchMoves
      /\ UNCHANGED <<registry, view, linger, clientVars>>
  BY TouchedMoves
<1>3. ViewTypeOK'
  BY <1>1, <1>2, MoveTypes DEF TypeOK
<1>4. ClientTypeOK'
  BY <1>2 DEF TypeOK, ClientTypeOK, clientVars
<1> QED BY <1>1, <1>3, <1>4

(* The stream. *)
LEMMA SendTypes ==
  ASSUME chan \in Seq(Events), EventsNameThings, NEW m \in Events, Names(m), Send(m)
  PROVE  chan' \in Seq(Events) /\ EventsNameThings'
<1>1. CASE Up
  <2>1. chan' = Append(chan, m)
    BY <1>1 DEF Send
  <2>2. chan' \in Seq(Events) /\ DOMAIN chan' = 1 .. Len(chan) + 1
    BY <2>1
  <2>3. ASSUME NEW i \in DOMAIN chan' PROVE Names(chan'[i])
    <3>1. chan'[i] = IF i = Len(chan) + 1 THEN m ELSE chan[i]
      BY <2>1, <2>2
    <3>2. i \in DOMAIN chan \/ i = Len(chan) + 1
      BY <2>2
    <3> QED BY <3>1, <3>2 DEF EventsNameThings
  <2> QED BY <2>2, <2>3 DEF EventsNameThings
<1>2. CASE ~Up
  BY <1>2 DEF Send, EventsNameThings
<1> QED BY <1>1, <1>2

LEMMA EnvironmentKeeps ==
  ASSUME Environment
  PROVE  UNCHANGED <<phase, dropped, dirty, shellVars>>
BY DEF Environment, WindowOpens, WindowRetitled, WindowCloses, WindowCommits,
       BufferDestroyed, ImeRequested, Send

EnvTypeOK ==
  /\ open \in [Handles -> Titles \cup {Closed}] /\ next_handle \in 1 .. MaxHandle + 1
  /\ buffers \in [BufferIds -> 0 .. MaxHandle] /\ next_id \in 1 .. MaxBufferId + 1

LEMMA TypeParts ==
  TypeOK <=> /\ ViewTypeOK /\ ClientTypeOK /\ TouchTypeOK /\ EnvTypeOK
             /\ chan \in Seq(Events)
             /\ phase \in {"down", "starting", "running"}
             /\ dropped \in SUBSET Handles /\ dirty \in BOOLEAN
BY DEF TypeOK, EnvTypeOK, Events, EventTypes

LEMMA EnvironmentTypes ==
  ASSUME TypeOK, EventsNameThings, Environment
  PROVE  EnvTypeOK' /\ chan' \in Seq(Events) /\ EventsNameThings'
<1>0. EnvTypeOK /\ chan \in Seq(Events)
  BY TypeParts
<1>z. 0 \in 0 .. MaxHandle /\ 0 \in 0 .. MaxBufferId
  OBVIOUS
<1>1. ASSUME NEW t \in Titles, WindowOpens(t)
      PROVE  EnvTypeOK' /\ chan' \in Seq(Events) /\ EventsNameThings'
  <2>1. next_handle \in Handles
    BY <1>0, <1>1 DEF WindowOpens, EnvTypeOK, Handles
  <2>2. Added(next_handle, t) \in Events /\ Names(Added(next_handle, t))
    BY <2>1, <1>z DEF Added, Event, Events, EventTypes, Names, Handles
  <2>3. EnvTypeOK'
    BY <1>0, <1>1, <2>1 DEF EnvTypeOK, WindowOpens, Handles
  <2> QED BY <1>0, <1>1, <2>2, <2>3, SendTypes DEF WindowOpens
<1>2. ASSUME NEW t \in Titles, NEW h \in Handles, WindowRetitled(h, t)
      PROVE  EnvTypeOK' /\ chan' \in Seq(Events) /\ EventsNameThings'
  <2>1. Event("title", h, t, 0) \in Events /\ Names(Event("title", h, t, 0))
    BY <1>z DEF Event, Events, EventTypes, Names, Handles
  <2>2. EnvTypeOK'
    BY <1>0, <1>2 DEF EnvTypeOK, WindowRetitled
  <2> QED BY <1>0, <1>2, <2>1, <2>2, SendTypes DEF WindowRetitled
<1>3. ASSUME NEW h \in Handles, WindowCloses(h)
      PROVE  EnvTypeOK' /\ chan' \in Seq(Events) /\ EventsNameThings'
  <2>1. Event("removed", h, Untitled, 0) \in Events /\ Names(Event("removed", h, Untitled, 0))
    BY <1>z DEF Event, Events, EventTypes, Names, Handles
  <2>2. EnvTypeOK'
    BY <1>0, <1>3 DEF EnvTypeOK, WindowCloses
  <2> QED BY <1>0, <1>3, <2>1, <2>2, SendTypes DEF WindowCloses
<1>4. ASSUME NEW h \in Handles, WindowCommits(h)
      PROVE  EnvTypeOK' /\ chan' \in Seq(Events) /\ EventsNameThings'
  <2>1. PICK id \in {i \in BufferIds : buffers[i] = h} \cup ({next_id} \cap BufferIds) :
       /\ buffers' = [buffers EXCEPT ![id] = h]
       /\ next_id' = IF id = next_id THEN id + 1 ELSE next_id
       /\ Send(Event(IF id \in ShmIds THEN "buffer_shm" ELSE "buffer", h, Untitled, id))
    BY <1>4 DEF WindowCommits
  <2>2. id \in BufferIds
    OBVIOUS
  <2> DEFINE type == IF id \in ShmIds THEN "buffer_shm" ELSE "buffer"
  <2>3. type \in {"buffer_shm", "buffer"}
    OBVIOUS
  <2> HIDE DEF type
  <2>4. Event(type, h, Untitled, id) \in Events /\ Names(Event(type, h, Untitled, id))
    BY <2>2, <2>3, <1>z DEF Event, Events, EventTypes, Names, Handles, BufferIds
  <2>5. EnvTypeOK'
    <3>1. next_id' \in 1 .. MaxBufferId + 1
      BY <1>0, <2>1, <2>2 DEF EnvTypeOK, BufferIds
    <3>2. buffers' \in [BufferIds -> 0 .. MaxHandle]
      BY <1>0, <2>1, <2>2 DEF EnvTypeOK, Handles
    <3> QED BY <1>0, <1>4, <3>1, <3>2 DEF EnvTypeOK, WindowCommits
  <2>6. Send(Event(type, h, Untitled, id))
    BY <2>1 DEF type
  <2> QED BY <1>0, <2>4, <2>5, <2>6, SendTypes
<1>5. ASSUME NEW id \in BufferIds, BufferDestroyed(id)
      PROVE  EnvTypeOK' /\ chan' \in Seq(Events) /\ EventsNameThings'
  <2>1. Event("forgotten", 0, Untitled, id) \in Events /\ Names(Event("forgotten", 0, Untitled, id))
    BY <1>z DEF Event, Events, EventTypes, Names, BufferIds
  <2>2. EnvTypeOK'
    BY <1>0, <1>5, <1>z DEF EnvTypeOK, BufferDestroyed
  <2> QED BY <1>0, <1>5, <2>1, <2>2, SendTypes DEF BufferDestroyed
<1>6. ASSUME NEW on \in BOOLEAN, ImeRequested(on)
      PROVE  EnvTypeOK' /\ chan' \in Seq(Events) /\ EventsNameThings'
  <2> DEFINE type == IF on THEN "ime_on" ELSE "ime_off"
  <2>1. type \in {"ime_on", "ime_off"}
    OBVIOUS
  <2>2. Send(Event(type, 0, Untitled, 0))
    BY <1>6 DEF ImeRequested
  <2> HIDE DEF type
  <2>3. Event(type, 0, Untitled, 0) \in Events /\ Names(Event(type, 0, Untitled, 0))
    BY <1>z, <2>1 DEF Event, Events, EventTypes, Names
  <2>4. EnvTypeOK'
    BY <1>0, <1>6 DEF EnvTypeOK, ImeRequested, envVars
  <2> QED BY <1>0, <2>2, <2>3, <2>4, SendTypes
<1> QED BY <1>1, <1>2, <1>3, <1>4, <1>5, <1>6 DEF Environment

LEMMA HeadTypes ==
  ASSUME chan \in Seq(Events), EventsNameThings, chan # <<>>, chan' = Tail(chan)
  PROVE  /\ Head(chan) \in Events /\ Names(Head(chan)) /\ Head(chan) = chan[1]
         /\ 1 \in DOMAIN chan /\ DOMAIN chan = 1 .. Len(chan) /\ Len(chan) \in Nat
         /\ chan' \in Seq(Events) /\ DOMAIN chan' = 1 .. Len(chan) - 1
         /\ \A i \in DOMAIN chan' : i + 1 \in DOMAIN chan /\ chan'[i] = chan[i + 1]
         /\ EventsNameThings'
<1>1. /\ Head(chan) \in Events /\ Head(chan) = chan[1]
      /\ 1 \in DOMAIN chan /\ DOMAIN chan = 1 .. Len(chan) /\ Len(chan) \in Nat
      /\ chan' \in Seq(Events) /\ DOMAIN chan' = 1 .. Len(chan) - 1
  OBVIOUS
<1>2. \A i \in DOMAIN chan' : i + 1 \in DOMAIN chan /\ chan'[i] = chan[i + 1]
  BY <1>1
<1> QED BY <1>1, <1>2 DEF EventsNameThings

LEMMA OpenIsFinite == IsFiniteSet(OpenHandles)
<1>1. 1 \in Int /\ MaxHandle \in Int
  OBVIOUS
<1>2. IsFiniteSet(Handles)
  BY <1>1, FS_Interval DEF Handles
<1>3. OpenHandles \in SUBSET Handles
  BY DEF OpenHandles
<1> QED BY <1>2, <1>3, FS_Subset

(* The replay: every open window, in an order.                              *)
LEMMA ReplayTypes ==
  ASSUME TypeOK, NEW order \in SetToSeqs(OpenHandles),
         chan' = Append([i \in DOMAIN order |-> Added(order[i], open[order[i]])], Synced)
  PROVE  /\ DOMAIN order = 1 .. Cardinality(OpenHandles) /\ Cardinality(OpenHandles) \in Nat
         /\ \A i \in DOMAIN order : order[i] \in OpenHandles
         /\ DOMAIN chan' = 1 .. Cardinality(OpenHandles) + 1
         /\ \A i \in DOMAIN order : i \in DOMAIN chan' /\ chan'[i] = Added(order[i], open[order[i]])
         /\ chan'[Cardinality(OpenHandles) + 1] = Synced
         /\ chan' \in Seq(Events) /\ EventsNameThings'
<1> DEFINE n == Cardinality(OpenHandles)
           replay == [i \in DOMAIN order |-> Added(order[i], open[order[i]])]
<1>1. n \in Nat
  <2>1. IsFiniteSet(OpenHandles)
    BY OpenIsFinite
  <2> QED BY <2>1, FS_CardinalityType
<1>2. order \in [1 .. n -> OpenHandles]
  BY DEF SetToSeqs
<1>3. \A i \in 1 .. n : order[i] \in OpenHandles
  BY <1>2
<1>z. 0 \in 0 .. MaxHandle /\ 0 \in 0 .. MaxBufferId
  OBVIOUS
<1>4. ASSUME NEW i \in 1 .. n
      PROVE  /\ Added(order[i], open[order[i]]) \in Events
             /\ Names(Added(order[i], open[order[i]]))
  <2>1. order[i] \in Handles /\ open[order[i]] \in Titles
    BY <1>3, TypeParts DEF OpenHandles, EnvTypeOK
  <2> QED BY <2>1, <1>z DEF Added, Event, Events, EventTypes, Names, Handles
<1>5. Synced \in Events /\ Names(Synced)
  BY <1>z DEF Synced, Event, Events, EventTypes, Names
<1>6. replay \in Seq(Events) /\ Len(replay) = n /\ \A i \in 1 .. n : replay[i] = Added(order[i], open[order[i]])
  <2>1. replay \in [1 .. n -> Events]
    BY <1>2, <1>4
  <2>2. \A i \in 1 .. n : replay[i] = Added(order[i], open[order[i]])
    BY <1>2
  <2> HIDE DEF replay
  <2>3. replay \in Seq(Events) /\ Len(replay) = n
    <3> HIDE DEF n
    <3> QED BY <1>1, <2>1
  <2> QED BY <2>2, <2>3
<1>7. chan' = Append(replay, Synced)
  OBVIOUS
<1> HIDE DEF n, replay
<1>8. chan' \in Seq(Events) /\ DOMAIN chan' = 1 .. n + 1
  BY <1>1, <1>5, <1>6, <1>7
<1>9. chan'[n + 1] = Synced /\ \A i \in 1 .. n : i \in 1 .. n + 1 /\ chan'[i] = replay[i]
  BY <1>1, <1>5, <1>6, <1>7
<1>10. DOMAIN order = 1 .. n
  BY <1>2
<1>11. EventsNameThings'
  <2>1. ASSUME NEW i \in DOMAIN chan' PROVE Names(chan'[i])
    <3>1. i \in 1 .. n \/ i = n + 1
      BY <1>1, <1>8
    <3> QED BY <3>1, <1>4, <1>5, <1>6, <1>9
  <2> QED BY <2>1 DEF EventsNameThings
<1> QED BY <1>1, <1>3, <1>6, <1>8, <1>9, <1>10, <1>11 DEF n

-----------------------------------------------------------------------------
(* Every step, as what it does to the shell and what to the stream.         *)

LEMMA StartTypes ==
  ASSUME ShellStart
  PROVE  ViewTypeOK' /\ ClientTypeOK' /\ TouchTypeOK'
<1>1. 0 \in 0 .. MaxHandle /\ EmptyApp \in [handle : 0 .. MaxHandle, texture : AnyTexture]
  <2>1. 0 \in 0 .. MaxHandle
    OBVIOUS
  <2> QED BY <2>1 DEF EmptyApp, AnyTexture
<1>2. ViewTypeOK'
  BY <1>1 DEF ShellStart, ViewStart, ViewTypeOK, Views
<1>3. ClientTypeOK'
  <2>1. <<>> \in Seq([id : BufferIds, texture : Textures]) /\ Len(<<>>) <= CacheMax
    OBVIOUS
  <2> QED BY <1>1, <2>1 DEF ShellStart, ClientStart, ClientTypeOK
<1>4. TouchTypeOK'
  BY NoTouchTypes DEF ShellStart, TouchStart, TouchTypeOK, Nodes
<1> QED BY <1>2, <1>3, <1>4

LEMMA InitTypes == Init => TypeOK /\ EventsNameThings
<1> SUFFICES ASSUME Init PROVE TypeOK /\ EventsNameThings
  OBVIOUS
<1>1. 0 \in 0 .. MaxHandle /\ EmptyApp \in [handle : 0 .. MaxHandle, texture : AnyTexture]
      /\ 1 \in 1 .. MaxHandle + 1 /\ 1 \in 1 .. MaxBufferId + 1
  <2>1. 0 \in 0 .. MaxHandle
    OBVIOUS
  <2> QED BY <2>1 DEF EmptyApp, AnyTexture
<1>2. ViewTypeOK
  BY <1>1 DEF Init, ViewInit, ViewTypeOK, Views
<1>3. ClientTypeOK
  <2>1. <<>> \in Seq([id : BufferIds, texture : Textures]) /\ Len(<<>>) <= CacheMax
    OBVIOUS
  <2> QED BY <1>1, <2>1 DEF Init, ClientInit, ClientTypeOK
<1>4. TouchTypeOK
  BY NoTouchTypes DEF Init, TouchInit, TouchTypeOK, Nodes
<1>5. EnvTypeOK
  BY <1>1 DEF Init, EnvTypeOK
<1>6. chan \in Seq(Events) /\ EventsNameThings
  BY DEF Init, EventsNameThings
<1> QED BY <1>2, <1>3, <1>4, <1>5, <1>6, TypeParts DEF Init

LEMMA TickTypes ==
  ASSUME ViewTypeOK, ClientTypeOK, TouchTypeOK, Tick
  PROVE  ViewTypeOK' /\ ClientTypeOK' /\ TouchTypeOK'
<1>1. SwipeInProgress \in BOOLEAN
  BY DEF SwipeInProgress, TouchTypeOK
<1>2. display' \in Views
  BY <1>1, WantedTypes DEF Tick, Reassert
<1>3. view' \in Views /\ linger' \in BOOLEAN
  BY DEF Tick, Rendered, Skipped, ViewTypeOK
<1>4. anim' \in BOOLEAN /\ force_render' \in BOOLEAN
  BY DEF Tick, Reassert, RequestRender, ViewTypeOK
<1>5. UNCHANGED <<registry, focused, app, redirect, switcher, launch, clientVars, touchVars>>
  BY DEF Tick
<1> QED BY <1>2, <1>3, <1>4, <1>5 DEF ViewTypeOK, ClientTypeOK, TouchTypeOK, clientVars, touchVars

LEMMA TypesNext == TypeOK /\ EventsNameThings /\ [Next]_vars => TypeOK' /\ EventsNameThings'
<1> SUFFICES ASSUME TypeOK, EventsNameThings, [Next]_vars
             PROVE  TypeOK' /\ EventsNameThings'
  OBVIOUS
<1>0. /\ ViewTypeOK /\ ClientTypeOK /\ TouchTypeOK /\ EnvTypeOK /\ chan \in Seq(Events)
      /\ phase \in {"down", "starting", "running"}
      /\ dropped \in SUBSET Handles /\ dirty \in BOOLEAN
  BY TypeParts
<1>u. UNCHANGED envVars => EnvTypeOK'
  BY <1>0 DEF EnvTypeOK, envVars
<1>s. UNCHANGED shellVars => ViewTypeOK' /\ ClientTypeOK' /\ TouchTypeOK'
  BY <1>0 DEF ViewTypeOK, ClientTypeOK, TouchTypeOK, shellVars, viewVars, clientVars, touchVars
<1>c. UNCHANGED chan => chan' \in Seq(Events) /\ EventsNameThings'
  BY <1>0 DEF EventsNameThings
<1>p. ASSUME ViewTypeOK', ClientTypeOK', TouchTypeOK', EnvTypeOK', chan' \in Seq(Events),
             phase' \in {"down", "starting", "running"}, dropped' \in SUBSET Handles,
             dirty' \in BOOLEAN
      PROVE  TypeOK'
  BY <1>p DEF TypeOK, EnvTypeOK, Events, EventTypes
<1>1. CASE Environment
  <2>1. UNCHANGED <<phase, dropped, dirty, shellVars>>
    BY <1>1, EnvironmentKeeps
  <2> QED BY <1>0, <1>1, <1>s, <1>p, <2>1, EnvironmentTypes
<1>2. CASE ShellStarts
  <2>1. PICK order \in SetToSeqs(OpenHandles) :
          chan' = Append([i \in DOMAIN order |-> Added(order[i], open[order[i]])], Synced)
    BY <1>2 DEF ShellStarts
  <2>2. chan' \in Seq(Events) /\ EventsNameThings'
    BY <2>1, ReplayTypes
  <2> QED BY <1>0, <1>2, <1>s, <1>u, <1>p, <2>2 DEF ShellStarts
<1>3. CASE ShellDies
  <2>1. chan' \in Seq(Events) /\ EventsNameThings'
    BY <1>3 DEF ShellDies, EventsNameThings
  <2> QED BY <1>3, <1>u, <1>p, <2>1, StartTypes DEF ShellDies
<1>4. CASE SceneLoads /\ dirty' = (dirty \/ Picture' # Picture)
  <2>1. chan' \in Seq(Events) /\ EventsNameThings'
    BY <1>0, <1>4, HeadTypes DEF SceneLoads
  <2>2. ViewTypeOK' /\ ClientTypeOK' /\ TouchTypeOK'
    BY <1>0, <1>4 DEF SceneLoads, ViewTypeOK, ClientTypeOK, TouchTypeOK, viewVars, textureVars, touchVars
  <2>3. dirty' \in BOOLEAN
    BY <1>0, <1>4
  <2> QED BY <1>0, <1>4, <1>u, <1>p, <2>1, <2>2, <2>3 DEF SceneLoads
<1>5. CASE EventArrives /\ dirty' = (dirty \/ Picture' # Picture)
  <2>0. chan # <<>> /\ chan' = Tail(chan) /\ Handle(Head(chan)) /\ NodesFreed /\ UNCHANGED <<envVars, phase>>
    BY <1>5 DEF EventArrives
  <2>1. chan' \in Seq(Events) /\ EventsNameThings' /\ Head(chan) \in Events /\ Names(Head(chan))
    BY <1>0, <2>0, HeadTypes
  <2>2. ViewTypeOK' /\ ClientTypeOK'
    BY <2>0, <2>1, HandlerTypes
  <2>3. TouchTypeOK'
    BY <1>0, <2>0 DEF NodesFreed, TouchTypeOK, Nodes
  <2>4. dropped' \in SUBSET Handles
    BY <1>0, <1>5, <2>1 DEF EventArrives, Names
  <2>5. dirty' \in BOOLEAN
    BY <1>0, <1>5
  <2> QED BY <1>0, <1>u, <1>p, <2>0, <2>1, <2>2, <2>3, <2>4, <2>5
<1>6. CASE Touched /\ dirty' = (dirty \/ Picture' # Picture)
  <2>1. UNCHANGED <<envVars, chan, phase, dropped>>
    BY <1>6 DEF Touched
  <2>2. dirty' \in BOOLEAN
    BY <1>0, <1>6
  <2> QED BY <1>0, <1>6, <1>u, <1>c, <1>p, <2>1, <2>2, TouchedTypes
<1>7. CASE Frame
  <2>1. UNCHANGED <<envVars, chan, phase, dropped>> /\ Tick
    BY <1>7 DEF Frame, Tick
  <2>2. dirty' \in BOOLEAN
    BY <1>0, <1>7 DEF Frame
  <2> QED BY <1>0, <1>u, <1>c, <1>p, <2>1, <2>2, TickTypes
<1>8. CASE UNCHANGED vars
  BY <1>0, <1>8, <1>u, <1>s, <1>c, <1>p DEF vars
<1> QED BY <1>1, <1>2, <1>3, <1>4, <1>5, <1>6, <1>7, <1>8 DEF Next

-----------------------------------------------------------------------------
(* The fullscreen view shows the window with the focus.                     *)

LEMMA MovesKeepFocus ==
  ASSUME ViewTypeOK, FullscreenShowsFocus, TouchMoves, UNCHANGED registry
  PROVE  FullscreenShowsFocus'
<1> USE DEF FullscreenShowsFocus, Registered, navVars
<1>1. CASE NoClickEffect
  BY <1>1 DEF NoClickEffect
<1>2. CASE \E h : OnTileTap(h)
  BY <1>2 DEF OnTileTap, ShowFullscreen
<1>3. CASE OnAppTileTap
  BY <1>3 DEF OnAppTileTap, EmptyApp
<1>4. CASE OnTaskSwitcherBgTap
  BY <1>4 DEF OnTaskSwitcherBgTap
<1>5. CASE \E long_fast \in BOOLEAN, visible \in BOOLEAN : OnSwipeUpBottom(long_fast, visible)
  BY <1>5 DEF OnSwipeUpBottom, ShowSwitcher
<1> QED BY <1>1, <1>2, <1>3, <1>4, <1>5 DEF TouchMoves

LEMMA BuffersKeepFocus ==
  ASSUME ViewTypeOK, ClientTypeOK, FullscreenShowsFocus, NEW h \in Handles, NEW id, NEW fresh \in SUBSET Textures, NEW fails,
         BufferArrives(h, id, fresh, fails)
  PROVE  FullscreenShowsFocus'
<1> DEFINE e == IF h \in Registered THEN registry[h]
                ELSE [title |-> Untitled, texture |-> NoTexture, card |-> NoCard]
<1> USE DEF FullscreenShowsFocus, Registered
<1>0. e \in Entries /\ (h \in Registered => e = registry[h])
  BY EntryOf DEF Entries, AnyTexture
<1>1. UNCHANGED <<navVars, switcher, launch, anim, view, linger, scene>>
  BY DEF BufferArrives
<1> HIDE DEF e
<1>2. CASE UNCHANGED <<registry, app, deck, textureVars, force_render>>
  BY <1>1, <1>2 DEF navVars
<1>3. ASSUME NEW t \in Textures, ShowTexture(h, e, t) PROVE FullscreenShowsFocus'
  <2>1. [e EXCEPT !.texture = t] \in Entries /\ [e EXCEPT !.texture = t].texture = t
    BY <1>0 DEF Entries, AnyTexture
  <2> QED BY <1>0, <1>1, <1>3, <2>1 DEF ShowTexture, navVars, ViewTypeOK
<1>4. CASE ImportFailed(h, e)
  BY <1>0, <1>1, <1>4 DEF ImportFailed, navVars, ViewTypeOK
<1>5. CASE \E i \in Cached(id) : ShowTexture(h, e, cache[i].texture)
  BY <1>3, <1>5, CacheTypes DEF Cached
<1> QED BY <1>2, <1>3, <1>4, <1>5 DEF BufferArrives, e

LEMMA HandlersKeepFocus ==
  ASSUME TypeOK, FullscreenShowsFocus, NEW m \in Events, Names(m), Handle(m)
  PROVE  FullscreenShowsFocus'
<1> USE DEF TypeOK, Events, Names, FullscreenShowsFocus, Registered, navVars
<1>1. CASE m.type = "added" /\ OnToplevelAdded(m.handle, m.title)
  <2> DEFINE h == m.handle
             texture == IF h \in Registered THEN registry[h].texture ELSE NoTexture
  <2>1. CASE Full /\ h \notin Registered
    BY <1>1, <2>1 DEF OnToplevelAdded, viewVars
  <2>2. CASE ~(Full /\ h \notin Registered)
    <3>1. PICK c \in CardAddresses :
          /\ registry' = [registry EXCEPT ![h] =
                              [title |-> m.title, texture |-> texture, card |-> c]]
          /\ \E in_time \in (IF launch THEN BOOLEAN ELSE {FALSE}) :
                 IF in_time THEN ShowFullscreen(h, texture)
                            ELSE UNCHANGED <<navVars, app>>
      BY <1>1, <2>2 DEF OnToplevelAdded
    <3>2. [title |-> m.title, texture |-> texture, card |-> c] \in Entries
      <4>1. texture \in AnyTexture
        BY EntryOf, EntryTypes DEF AnyTexture
      <4> QED BY <4>1 DEF CardAddresses, Entries
    <3>3. registry'[h].texture = texture /\ registry'[h] # Unregistered /\ h \in Handles
      BY <1>1, <3>1, <3>2 DEF ViewTypeOK
    <3>4. \A g \in Handles : g # h => registry'[g] = registry[g]
      BY <3>1 DEF ViewTypeOK
    <3>5. CASE ShowFullscreen(h, texture)
      BY <3>3, <3>5 DEF ShowFullscreen
    <3>6. CASE UNCHANGED <<navVars, app>>
      BY <3>3, <3>4, <3>6
    <3> QED BY <3>1, <3>5, <3>6
  <2> QED BY <2>1, <2>2
<1>2. CASE m.type = "title" /\ OnToplevelTitleChanged(m.handle, m.title)
  <2>1. \A h \in Registered : [registry[h] EXCEPT !.title = m.title] \in Entries
    BY EntryOf, EntryTypes
  <2> QED BY <1>2, <2>1, EntryOf DEF OnToplevelTitleChanged, ViewTypeOK, Entries
<1>3. CASE m.type = "removed" /\ OnToplevelRemoved(m.handle)
  BY <1>3 DEF OnToplevelRemoved, ShowSwitcher, ViewTypeOK
<1>4. CASE m.type = "buffer" /\ OnToplevelBuffer(m.handle, m.id, ImportFails)
  <2>1. FreeTextures \in SUBSET Textures
    BY DEF FreeTextures
  <2> QED BY <1>4, <2>1, BuffersKeepFocus DEF OnToplevelBuffer
<1>5. CASE m.type = "buffer_shm" /\ OnToplevelBufferShm(m.handle, m.id, ImportFails)
  BY <1>5, OldestTypes, BuffersKeepFocus DEF OnToplevelBufferShm
<1>6. CASE m.type = "forgotten" /\ OnBufferForgotten(m.id)
  BY <1>6 DEF OnBufferForgotten
<1>7. CASE \E on \in BOOLEAN : OnImeRequest(on)
  BY <1>7 DEF OnImeRequest
<1> QED BY <1>1, <1>2, <1>3, <1>4, <1>5, <1>6, <1>7 DEF Handle

LEMMA FocusNext ==
  TypeOK /\ EventsNameThings /\ FullscreenShowsFocus /\ [Next]_vars => FullscreenShowsFocus'
<1> SUFFICES ASSUME TypeOK, EventsNameThings, FullscreenShowsFocus, [Next]_vars
             PROVE  FullscreenShowsFocus'
  OBVIOUS
<1>u. UNCHANGED <<registry, focused, app>> => FullscreenShowsFocus'
  BY DEF FullscreenShowsFocus, Registered
<1>1. CASE Environment
  BY <1>1, <1>u, EnvironmentKeeps DEF shellVars, viewVars
<1>2. CASE ShellStarts
  BY <1>2, <1>u DEF ShellStarts, shellVars, viewVars
<1>3. CASE ShellDies
  BY <1>3 DEF ShellDies, ShellStart, ViewStart, FullscreenShowsFocus
<1>4. CASE SceneLoads
  BY <1>4, <1>u DEF SceneLoads, viewVars
<1>5. CASE EventArrives
  BY <1>5, TypeParts, HeadTypes, HandlersKeepFocus DEF EventArrives
<1>6. CASE Touched
  BY <1>6, TouchedMoves, MovesKeepFocus, TypeParts
<1>7. CASE Frame
  BY <1>7, <1>u DEF Frame, Tick
<1>8. CASE UNCHANGED vars
  BY <1>8, <1>u DEF vars, shellVars, viewVars
<1> QED BY <1>1, <1>2, <1>3, <1>4, <1>5, <1>6, <1>7, <1>8 DEF Next

-----------------------------------------------------------------------------
(* The node that is pressed is in the tree.                                 *)

LEMMA PressedNext ==
  TypeOK /\ PressedNodeIsLive /\ [Next]_vars => PressedNodeIsLive'
<1> SUFFICES ASSUME TypeOK, PressedNodeIsLive, [Next]_vars
             PROVE  PressedNodeIsLive'
  OBVIOUS
<1> USE DEF PressedNodeIsLive, InDeck
<1>u. UNCHANGED <<pressed, deck>> => PressedNodeIsLive'
  OBVIOUS
<1>n. NoNode \notin Cards
  OBVIOUS
<1>1. CASE Environment
  BY <1>1, <1>u, EnvironmentKeeps DEF shellVars, clientVars, touchVars
<1>2. CASE ShellStarts
  BY <1>2, <1>u DEF ShellStarts, shellVars, clientVars, touchVars
<1>3. CASE ShellDies
  BY <1>3, <1>n DEF ShellDies, ShellStart, TouchStart
<1>4. CASE SceneLoads
  BY <1>4, <1>u DEF SceneLoads, touchVars
<1>5. CASE EventArrives
  BY <1>5, <1>n DEF EventArrives, NodesFreed
<1>6. CASE Touched
  <2>1. UNCHANGED deck
    BY <1>6, TouchedMoves DEF clientVars
  <2>2. PICK f \in Fingers :
          \/ \E n \in Nodes, bottom \in BOOLEAN : TouchDown(f, n, bottom)
          \/ \E move \in Moves : TouchMotion(f, move)
          \/ TouchUp(f)
          \/ TouchCancel
    BY <1>6 DEF Touched
  <2>3. ASSUME NEW n \in Nodes, NEW bottom \in BOOLEAN, TouchDown(f, n, bottom)
        PROVE  PressedNodeIsLive'
    <3>1. n \in Cards => n \in InDeck
      BY <2>3 DEF TouchDown, HitTest, Controls
    <3> QED BY <2>1, <2>3, <3>1 DEF TouchDown, PressBy
  <2>4. pressed' \in {pressed, NoNode} => PressedNodeIsLive'
    BY <2>1, <1>n
  <2> QED BY <2>2, <2>3, <2>4 DEF TouchMotion, TouchUp, TouchCancel
<1>7. CASE Frame
  BY <1>7, <1>u DEF Frame, Tick, clientVars, touchVars
<1>8. CASE UNCHANGED vars
  BY <1>8, <1>u DEF vars, shellVars, clientVars, touchVars
<1> QED BY <1>1, <1>2, <1>3, <1>4, <1>5, <1>6, <1>7, <1>8 DEF Next

-----------------------------------------------------------------------------
(* Touches.  wl_touch.cancel is told to meek-ui only: with it, a second     *)
(* finger makes the recognizer and the card drag follow touches that are    *)
(* over, and what is below does not hold.                                   *)

Cancels == "cancel" \in Happens
CancelsAreAlone == Cancels => Fingers \subseteq {0}

(* meek-ui and the recognizer follow the same finger, which is down.        *)
SameFinger ==
  /\ touch_active_id # NoFinger =>
       touch_active_id \in fingers /\ slot0.active /\ slot0.id = touch_active_id
  /\ ~Cancels /\ slot0.active => touch_active_id = slot0.id

(* A drag of a card ends with its touch or, when that was cancelled, is     *)
(* begun anew by the next one; while it has the touch, nothing is pressed.  *)
DragHasTheTouch ==
  /\ ~Cancels /\ drag.active => 0 \in fingers
  /\ drag.active /\ drag.handle # 0 =>
       /\ Cancels => switcher /\ pressed # "switcher_bg"
       /\ drag.axis # "none" /\ touch_active_id = 0 => pressed = NoNode

TouchInv == SameFinger /\ DragHasTheTouch /\ NoTapAndDismiss

LEMMA TouchDownInv ==
  ASSUME CancelsAreAlone, TypeOK, TouchInv, NEW f \in Fingers, NEW n \in Nodes,
         NEW bottom \in BOOLEAN, TouchDown(f, n, bottom)
  PROVE  TouchInv'
<1> USE DEF TouchInv, TypeOK, TouchTypeOK, Cancels
<1>1. /\ f \notin fingers /\ fingers' = fingers \cup {f} /\ switcher' = switcher
      /\ n \in HitTest /\ PressBy(f, n) /\ GestureDown(f, bottom) /\ DragDown(f, n)
      /\ both' = both
  BY DEF TouchDown
<1>2. f # NoFinger /\ 0 # NoFinger
  OBVIOUS
<1>3. Cancels => f = 0 /\ slot0.id = 0 /\ touch_active_id = NoFinger
  BY <1>1 DEF CancelsAreAlone, SameFinger
<1>4. SameFinger'
  <2>1. CASE touch_active_id = NoFinger
    <3>1. touch_active_id' = f
      BY <1>1, <2>1 DEF PressBy
    <3>2. slot0'.active /\ slot0'.id = f
      <4>1. CASE slot0.active
        BY <1>1, <1>2, <1>3, <2>1, <4>1 DEF GestureDown, SameFinger
      <4>2. CASE ~slot0.active
        BY <1>1, <4>2 DEF GestureDown
      <4> QED BY <4>1, <4>2
    <3> QED BY <1>1, <3>1, <3>2 DEF SameFinger
  <2>2. CASE touch_active_id # NoFinger
    <3>1. touch_active_id' = touch_active_id
      BY <1>1, <2>2 DEF PressBy
    <3>2. slot0' = slot0
      BY <1>1, <2>2 DEF GestureDown, SameFinger
    <3> QED BY <1>1, <2>2, <3>1, <3>2 DEF SameFinger
  <2> QED BY <2>1, <2>2
<1>5. DragHasTheTouch'
  <2>1. CASE f = 0 /\ switcher
    <3>1. drag'.active /\ drag'.axis = "none" /\ (drag'.handle # 0 => n \in Cards)
      BY <1>1, <2>1 DEF DragDown
    <3>2. Cancels => pressed' = n
      BY <1>1, <1>3 DEF PressBy
    <3>3. n \in Cards => n # "switcher_bg"
      BY DEF Controls
    <3> QED BY <1>1, <2>1, <3>1, <3>2, <3>3 DEF DragHasTheTouch
  <2>2. CASE f = 0 /\ ~switcher
    BY <1>1, <1>2, <2>2 DEF DragDown, DragHasTheTouch
  <2>3. CASE f # 0
    <3>1. drag' = drag /\ ~Cancels
      BY <1>1, <1>3, <2>3 DEF DragDown
    <3>2. touch_active_id' = 0 => touch_active_id = 0 /\ pressed' = pressed
      BY <1>1, <2>3 DEF PressBy
    <3> QED BY <1>1, <3>1, <3>2 DEF DragHasTheTouch
  <2> QED BY <2>1, <2>2, <2>3
<1>6. NoTapAndDismiss'
  BY <1>1 DEF NoTapAndDismiss
<1> QED BY <1>4, <1>5, <1>6

LEMMA TouchMotionInv ==
  ASSUME TypeOK, TouchInv, NEW f \in Fingers, NEW move \in Moves, TouchMotion(f, move)
  PROVE  TouchInv'
<1> USE DEF TouchInv, TypeOK, TouchTypeOK
<1>1. UNCHANGED <<switcher, fingers, touch_active_id, both>>
  BY DEF TouchMotion
<1>2. slot0'.active = slot0.active /\ slot0'.id = slot0.id
  BY DEF TouchMotion
<1>3. /\ drag'.active = drag.active /\ drag'.handle = drag.handle
      /\ \/ drag'.axis = drag.axis /\ pressed' = pressed
         \/ pressed' = NoNode
  BY DEF TouchMotion, Drags
<1>4. SameFinger'
  BY <1>1, <1>2 DEF SameFinger
<1>5. DragHasTheTouch'
  BY <1>1, <1>3 DEF DragHasTheTouch, NoNode
<1>6. NoTapAndDismiss'
  BY <1>1 DEF NoTapAndDismiss
<1> QED BY <1>4, <1>5, <1>6

LEMMA NothingIsHit == NoNode \notin HitTest
BY DEF HitTest, InDeck, Controls, NoNode

(* The background of the switcher is what a tap closes it by.               *)
LEMMA MovesKeepSwitcher ==
  ASSUME NEW n \in Nodes, n # "switcher_bg", Click(n)
  PROVE  switcher' = switcher
BY DEF Click, OnTileTap, OnAppTileTap, NoClickEffect

LEMMA TouchUpInv ==
  ASSUME CancelsAreAlone, TypeOK, TouchInv, NEW f \in Fingers, TouchUp(f)
  PROVE  TouchInv'
<1> USE DEF TouchInv, TypeOK, TouchTypeOK, Cancels
<1>1. PICK clicks \in Clicks(f) :
        both' = IF clicks /\ Dismisses(f) THEN both \cup {f} ELSE both
  BY DEF TouchUp
<1>2. /\ f \in fingers /\ fingers' = fingers \ {f}
      /\ IF touch_active_id = f
         THEN touch_active_id' = NoFinger /\ pressed' = NoNode
         ELSE UNCHANGED <<touch_active_id, pressed>>
      /\ slot0' = IF slot0.active /\ slot0.id = f THEN NoTouch ELSE slot0
      /\ drag' = IF Drags(f) THEN NoDrag ELSE drag
  BY DEF TouchUp
<1>3. f # NoFinger /\ 0 # NoFinger
  OBVIOUS
<1>4. SameFinger'
  BY <1>2, <1>3 DEF SameFinger, NoTouch
<1>5. DragHasTheTouch'
  <2>1. CASE Drags(f)
    BY <1>2, <2>1 DEF DragHasTheTouch, NoDrag
  <2>2. CASE ~Drags(f)
    <3>1. drag.active => ~Cancels /\ f # 0
      BY <2>2 DEF Drags, CancelsAreAlone
    <3>2. drag' = drag
      BY <1>2, <2>2
    <3> QED BY <1>2, <1>3, <3>1, <3>2 DEF DragHasTheTouch
  <2> QED BY <2>1, <2>2
<1>6. NoTapAndDismiss'
  <2>1. SUFFICES ASSUME clicks, Dismisses(f) PROVE FALSE
    BY <1>1 DEF NoTapAndDismiss
  <2>2. touch_active_id = f /\ pressed \in HitTest
    BY <2>1 DEF Clicks
  <2>3. f = 0 /\ drag.active /\ drag.axis # "none" /\ drag.handle # 0
    BY <2>1 DEF Dismisses, Drags
  <2>4. pressed = NoNode
    BY <2>2, <2>3 DEF DragHasTheTouch
  <2> QED BY <2>2, <2>4, NothingIsHit
<1> QED BY <1>4, <1>5, <1>6

LEMMA TouchCancelInv ==
  ASSUME CancelsAreAlone, Cancels, TypeOK, TouchInv, TouchCancel
  PROVE  TouchInv'
<1> USE DEF TouchInv, TypeOK, TouchTypeOK
<1>1. fingers' = {} /\ UNCHANGED <<slot0, drag, both>> /\ touch_active_id' = NoFinger
  BY DEF TouchCancel
<1>2. SameFinger' /\ NoTapAndDismiss'
  BY <1>1 DEF SameFinger, NoTapAndDismiss
<1>3. CASE touch_active_id = NoFinger
  <2>1. UNCHANGED <<pressed, switcher>>
    BY <1>3 DEF TouchCancel, NoClickEffect
  <2>2. DragHasTheTouch'
    BY <1>1, <2>1 DEF DragHasTheTouch
  <2> QED BY <1>2, <2>2
<1>4. CASE touch_active_id # NoFinger
  <2>1. PICK clicks \in Clicks(touch_active_id) :
          IF clicks THEN Click(pressed) ELSE NoClickEffect
    BY <1>4 DEF TouchCancel
  <2>2. pressed' = NoNode
    BY <1>4 DEF TouchCancel
  <2>3. DragHasTheTouch'
    <3>1. drag.active /\ drag.handle # 0 => switcher /\ pressed # "switcher_bg"
      BY DEF DragHasTheTouch
    <3>2. pressed # "switcher_bg" => switcher' = switcher
      BY <2>1, MovesKeepSwitcher DEF NoClickEffect
    <3> QED BY <1>1, <2>2, <3>1, <3>2 DEF DragHasTheTouch, NoNode
  <2> QED BY <1>2, <2>3
<1> QED BY <1>3, <1>4

LEMMA HandlersKeepSwitcher ==
  ASSUME NEW m, Handle(m)
  PROVE  switcher' = switcher
BY DEF Handle, OnToplevelAdded, OnToplevelTitleChanged, OnToplevelRemoved, OnToplevelBuffer,
       OnToplevelBufferShm, BufferArrives, OnBufferForgotten, OnImeRequest, viewVars

LEMMA TouchInvNext ==
  CancelsAreAlone /\ TypeOK /\ TouchInv /\ [Next]_vars => TouchInv'
<1> SUFFICES ASSUME CancelsAreAlone, TypeOK, TouchInv, [Next]_vars
             PROVE  TouchInv'
  OBVIOUS
<1>u. ASSUME UNCHANGED <<fingers, touch_active_id, slot0, drag, both, switcher>>,
             pressed' \in {pressed, NoNode}
      PROVE  TouchInv'
  BY <1>u DEF TouchInv, SameFinger, DragHasTheTouch, NoTapAndDismiss, NoNode
<1>1. CASE Environment
  BY <1>1, <1>u, EnvironmentKeeps DEF shellVars, viewVars, touchVars
<1>2. CASE ShellStarts
  BY <1>2, <1>u DEF ShellStarts, shellVars, viewVars, touchVars
<1>3. CASE ShellDies
  BY <1>3 DEF ShellDies, ShellStart, TouchStart, TouchInv, SameFinger, DragHasTheTouch,
              NoTapAndDismiss, NoTouch, NoDrag
<1>4. CASE SceneLoads
  BY <1>4, <1>u DEF SceneLoads, viewVars, touchVars
<1>5. CASE EventArrives
  BY <1>5, <1>u, HandlersKeepSwitcher DEF EventArrives, NodesFreed
<1>6. CASE Touched
  BY <1>6, TouchDownInv, TouchMotionInv, TouchUpInv, TouchCancelInv DEF Touched, Cancels
<1>7. CASE Frame
  BY <1>7, <1>u DEF Frame, Tick, touchVars
<1>8. CASE UNCHANGED vars
  BY <1>8, <1>u DEF vars, shellVars, viewVars, touchVars
<1> QED BY <1>1, <1>2, <1>3, <1>4, <1>5, <1>6, <1>7, <1>8 DEF Next

-----------------------------------------------------------------------------
(* The render gate.                                                         *)

(* Until the loop runs, nothing takes the first frame's request back.       *)
FirstFrameIsForced == ~Running => force_render

DirtyIsWoken == dirty => force_render \/ linger

(* What is displayed is reasserted by every tick; after that, nothing that  *)
(* it depends on changes unless a frame is asked for.                       *)
DisplayIsWanted ==
  ~force_render => Shown(display) = Shown(Wanted(SwipeInProgress))

GateInv == FirstFrameIsForced /\ DirtyIsWoken /\ DisplayIsWanted

(* The picture is what it was when, besides, the deck did not change or is  *)
(* not on screen.                                                           *)
LEMMA PictureKept ==
  ASSUME UNCHANGED <<focused, anim, switcher, display, redirect, app>>,
         SwipeInProgress' = SwipeInProgress,
         deck' = deck \/ focused # 0
  PROVE  Picture' = Picture /\ Wanted(SwipeInProgress)' = Wanted(SwipeInProgress)
<1>1. Wanted(SwipeInProgress)' = Wanted(SwipeInProgress)
  BY DEF Wanted
<1>2. focused # 0 => ~Wanted(SwipeInProgress).home
  BY DEF Wanted
<1>3. CASE deck' = deck
  BY <1>1, <1>3 DEF Picture, InDeck
<1>4. CASE focused # 0
  BY <1>1, <1>2, <1>4 DEF Picture
<1> QED BY <1>1, <1>3, <1>4

(* What a step that is not a frame does to the gate.                        *)
Wakes ==
  /\ linger' = linger
  /\ \/ force_render' = TRUE
     \/ /\ force_render' = force_render
        /\ Picture' = Picture /\ display' = display
        /\ Wanted(SwipeInProgress)' = Wanted(SwipeInProgress)

LEMMA KeptWakes ==
  ASSUME UNCHANGED <<focused, anim, switcher, display, redirect, app, linger, force_render>>,
         SwipeInProgress' = SwipeInProgress,
         deck' = deck \/ focused # 0
  PROVE  Wakes
BY PictureKept DEF Wakes

LEMMA BuffersWake ==
  ASSUME ViewTypeOK, SwipeInProgress' = SwipeInProgress, NEW h \in Handles, NEW id, NEW fresh,
         NEW fails, BufferArrives(h, id, fresh, fails)
  PROVE  Wakes
<1>1. UNCHANGED <<navVars, switcher, launch, anim, view, linger, scene>>
  BY DEF BufferArrives
<1>2. CASE UNCHANGED <<app, deck, force_render>>
  BY <1>1, <1>2, KeptWakes DEF navVars
<1>3. ASSUME NEW e, NEW t, ShowTexture(h, e, t) PROVE Wakes
  <2>1. CASE Visible(h)
    BY <1>1, <1>3, <2>1 DEF ShowTexture, WakeFor, Wakes
  <2>2. CASE ~Visible(h)
    <3>1. focused # 0 /\ focused # h
      BY <2>2 DEF Visible
    <3>2. UNCHANGED <<app, force_render>>
      BY <1>3, <2>2, <3>1 DEF ShowTexture, WakeFor, ViewTypeOK
    <3> QED BY <1>1, <3>1, <3>2, KeptWakes DEF navVars
  <2> QED BY <2>1, <2>2
<1> QED BY <1>2, <1>3 DEF BufferArrives, ImportFailed

LEMMA HandlersWake ==
  ASSUME TypeOK, SwipeInProgress' = SwipeInProgress, NEW m \in Events, Names(m), Handle(m)
  PROVE  Wakes
<1> USE DEF TypeOK, Events, Names, navVars
<1>1. CASE m.type = "added" /\ OnToplevelAdded(m.handle, m.title)
  <2>1. CASE Full /\ m.handle \notin Registered
    BY <1>1, <2>1, KeptWakes DEF OnToplevelAdded, viewVars, clientVars
  <2>2. CASE ~(Full /\ m.handle \notin Registered)
    BY <1>1, <2>2 DEF OnToplevelAdded, RequestRender, Wakes
  <2> QED BY <2>1, <2>2
<1>2. CASE m.type = "title" /\ OnToplevelTitleChanged(m.handle, m.title)
  <2>0. UNCHANGED <<navVars, app, switcher, launch, anim, view, linger>>
    BY <1>2 DEF OnToplevelTitleChanged
  <2>1. CASE Visible(m.handle)
    BY <1>2, <2>0, <2>1 DEF OnToplevelTitleChanged, WakeFor, Wakes
  <2>2. CASE ~Visible(m.handle)
    <3>1. focused # 0 /\ UNCHANGED force_render
      BY <1>2, <2>2 DEF OnToplevelTitleChanged, WakeFor, Visible, ViewTypeOK
    <3> QED BY <2>0, <3>1, KeptWakes
  <2> QED BY <2>1, <2>2
<1>3. CASE m.type = "removed" /\ OnToplevelRemoved(m.handle)
  BY <1>3 DEF OnToplevelRemoved, RequestRender, Wakes
<1>4. CASE m.type = "buffer" /\ OnToplevelBuffer(m.handle, m.id, ImportFails)
  BY <1>4, BuffersWake DEF OnToplevelBuffer
<1>5. CASE m.type = "buffer_shm" /\ OnToplevelBufferShm(m.handle, m.id, ImportFails)
  BY <1>5, BuffersWake DEF OnToplevelBufferShm
<1>6. CASE m.type = "forgotten" /\ OnBufferForgotten(m.id)
  <2>1. CASE UNCHANGED force_render
    BY <1>6, <2>1, KeptWakes DEF OnBufferForgotten
  <2>2. CASE force_render' = TRUE
    BY <1>6, <2>2 DEF OnBufferForgotten, Wakes
  <2> QED BY <1>6, <2>1, <2>2 DEF OnBufferForgotten, RequestRender
<1>7. CASE \E on \in BOOLEAN : OnImeRequest(on)
  BY <1>7 DEF OnImeRequest, RequestRender, Wakes
<1> QED BY <1>1, <1>2, <1>3, <1>4, <1>5, <1>6, <1>7 DEF Handle

LEMMA TouchesWake ==
  ASSUME CancelsAreAlone, TypeOK, TouchInv, Touched
  PROVE  Wakes
<1> USE DEF TypeOK, TouchTypeOK, TouchInv, navVars
<1>0. UNCHANGED <<registry, view, linger, deck>>
  BY TouchedMoves DEF clientVars
<1>1. PICK f \in Fingers :
        \/ \E n \in Nodes, bottom \in BOOLEAN : TouchDown(f, n, bottom)
        \/ \E move \in Moves : TouchMotion(f, move)
        \/ TouchUp(f)
        \/ TouchCancel
  BY DEF Touched
<1>2. ASSUME NEW n \in Nodes, NEW bottom \in BOOLEAN, TouchDown(f, n, bottom)
      PROVE  Wakes
  <2>1. CASE touch_active_id = NoFinger
    BY <1>0, <1>2, <2>1 DEF TouchDown, PressBy, RequestRender, Wakes
  <2>2. CASE touch_active_id # NoFinger
    <3>1. slot0' = slot0 /\ force_render' = force_render
      BY <1>2, <2>2 DEF TouchDown, PressBy, GestureDown, SameFinger
    <3>2. SwipeInProgress' = SwipeInProgress
      BY <3>1 DEF SwipeInProgress
    <3> QED BY <1>0, <1>2, <3>1, <3>2, KeptWakes DEF TouchDown
  <2> QED BY <2>1, <2>2
<1>3. ASSUME NEW move \in Moves, TouchMotion(f, move)
      PROVE  Wakes
  <2>1. SwipeInProgress' = SwipeInProgress
    BY <1>3 DEF TouchMotion, SwipeInProgress
  <2>2. force_render' \in {TRUE, force_render}
    BY <1>3 DEF TouchMotion, ViewTypeOK
  <2>3. CASE force_render' = TRUE
    BY <1>0, <2>3 DEF Wakes
  <2>4. CASE force_render' = force_render
    BY <1>0, <1>3, <2>1, <2>4, KeptWakes DEF TouchMotion
  <2> QED BY <2>2, <2>3, <2>4
<1>4. CASE TouchUp(f)
  BY <1>0, <1>4 DEF TouchUp, RequestRender, Wakes
<1>5. CASE TouchCancel
  <2>1. CASE touch_active_id = NoFinger
    <3>1. SwipeInProgress' = SwipeInProgress
      BY <1>5 DEF TouchCancel, SwipeInProgress
    <3> QED BY <1>0, <1>5, <2>1, <3>1, KeptWakes DEF TouchCancel, NoClickEffect
  <2>2. CASE touch_active_id # NoFinger
    BY <1>0, <1>5, <2>2 DEF TouchCancel, RequestRender, Wakes
  <2> QED BY <2>1, <2>2
<1> QED BY <1>1, <1>2, <1>3, <1>4, <1>5

LEMMA WakesKeepGate ==
  ASSUME TypeOK, GateInv, Wakes, FirstFrameIsForced' \/ phase' = phase,
         dirty' = (dirty \/ Picture' # Picture)
  PROVE  GateInv'
<1>1. CASE force_render' = TRUE
  BY <1>1 DEF GateInv, FirstFrameIsForced, DirtyIsWoken, DisplayIsWanted
<1>2. CASE /\ force_render' = force_render
           /\ Picture' = Picture /\ display' = display
           /\ Wanted(SwipeInProgress)' = Wanted(SwipeInProgress)
  <2>1. FirstFrameIsForced'
    BY <1>2 DEF GateInv, FirstFrameIsForced, Running
  <2>2. DirtyIsWoken'
    BY <1>2 DEF GateInv, DirtyIsWoken, Wakes, TypeOK
  <2>3. DisplayIsWanted'
    BY <1>2 DEF GateInv, DisplayIsWanted, Shown
  <2> QED BY <2>1, <2>2, <2>3 DEF GateInv
<1> QED BY <1>1, <1>2 DEF Wakes

LEMMA FramesKeepGate ==
  ASSUME TypeOK, GateInv, Frame
  PROVE  GateInv'
<1> USE DEF TypeOK, ViewTypeOK
<1>0. Running /\ phase' = phase
  BY DEF Frame, Tick
<1>1. Reassert(SwipeInProgress)
  BY DEF Frame, Tick
<1>2. FirstFrameIsForced'
  BY <1>0 DEF FirstFrameIsForced, Running
<1>3. DirtyIsWoken'
  <2>1. CASE Skipped
    <3>1. dirty' = dirty /\ ~force_render /\ ~linger
      BY <2>1 DEF Frame, Skipped
    <3> QED BY <3>1 DEF GateInv, DirtyIsWoken
  <2>2. CASE ~Skipped
    <3>1. view' = display /\ linger' = force_render
      BY <2>2 DEF Frame, Tick, Rendered
    <3>2. dirty' = (Shown(view') # Shown(Wanted(SwipeInProgress)))
      BY <2>2 DEF Frame
    <3> QED BY <3>1, <3>2 DEF GateInv, DirtyIsWoken, DisplayIsWanted
  <2> QED BY <2>1, <2>2
<1>4. DisplayIsWanted'
  <2>1. CASE anim
    BY <1>1, <2>1 DEF Reassert, RequestRender, DisplayIsWanted
  <2>2. CASE ~anim
    <3>1. /\ UNCHANGED <<anim, focused, switcher, slot0>>
          /\ display' = Wanted(SwipeInProgress)
      BY <1>1, <2>2 DEF Reassert, Frame, Tick, touchVars
    <3>2. SwipeInProgress' = SwipeInProgress
      BY <3>1 DEF SwipeInProgress
    <3>3. Wanted(SwipeInProgress)' = Wanted(SwipeInProgress)
      BY <3>1, <3>2 DEF Wanted
    <3> QED BY <3>1, <3>3 DEF DisplayIsWanted, Shown
  <2> QED BY <2>1, <2>2
<1> QED BY <1>2, <1>3, <1>4 DEF GateInv

LEMMA GateNext ==
  /\ CancelsAreAlone /\ TypeOK /\ EventsNameThings /\ TouchInv
  /\ GateInv /\ [Next]_vars
  => GateInv'
<1> SUFFICES ASSUME CancelsAreAlone, TypeOK, EventsNameThings, TouchInv, GateInv, [Next]_vars
             PROVE  GateInv'
  OBVIOUS
<1>u. ASSUME UNCHANGED shellVars PROVE UNCHANGED <<force_render, linger>> /\ DisplayIsWanted'
  BY <1>u DEF GateInv, DisplayIsWanted, shellVars, viewVars, touchVars, Shown, Wanted,
              SwipeInProgress
<1>1. CASE Environment
  BY <1>1, <1>u, EnvironmentKeeps DEF GateInv, FirstFrameIsForced, DirtyIsWoken, Running
<1>2. CASE ShellStarts
  BY <1>2, <1>u DEF ShellStarts, GateInv, FirstFrameIsForced, DirtyIsWoken, Running
<1>3. CASE ShellDies
  BY <1>3 DEF ShellDies, ShellStart, ViewStart, GateInv, FirstFrameIsForced, DirtyIsWoken,
              DisplayIsWanted
<1>4. CASE SceneLoads /\ dirty' = (dirty \/ Picture' # Picture)
  <2>1. SwipeInProgress' = SwipeInProgress
    BY <1>4 DEF SceneLoads, touchVars, SwipeInProgress
  <2>2. Wakes
    BY <1>4, <2>1, KeptWakes DEF SceneLoads, viewVars
  <2>3. FirstFrameIsForced'
    BY <1>4 DEF SceneLoads, FirstFrameIsForced, Running
  <2> QED BY <1>4, <2>2, <2>3, WakesKeepGate
<1>5. CASE EventArrives /\ dirty' = (dirty \/ Picture' # Picture)
  <2>1. SwipeInProgress' = SwipeInProgress
    BY <1>5 DEF EventArrives, NodesFreed, SwipeInProgress
  <2>2. Head(chan) \in Events /\ Names(Head(chan)) /\ Handle(Head(chan))
    BY <1>5, HeadTypes, TypeParts DEF EventArrives
  <2>3. Wakes
    BY <2>1, <2>2, HandlersWake
  <2> QED BY <1>5, <2>3, WakesKeepGate DEF EventArrives
<1>6. CASE Touched /\ dirty' = (dirty \/ Picture' # Picture)
  BY <1>6, TouchesWake, WakesKeepGate DEF Touched
<1>7. CASE Frame
  BY <1>7, FramesKeepGate
<1>8. CASE UNCHANGED vars
  BY <1>8, <1>u DEF vars, GateInv, FirstFrameIsForced, DirtyIsWoken, Running
<1> QED BY <1>1, <1>2, <1>3, <1>4, <1>5, <1>6, <1>7, <1>8 DEF Next

-----------------------------------------------------------------------------
(* The stream and the registry.                                             *)

Mentions(h) == {i \in DOMAIN chan : chan[i].handle = h}
Naming(h) == {i \in Mentions(h) : chan[i].type \in {"added", "title"}}
Announced(h) == \E i \in Mentions(h) : chan[i].type = "added"
Leaving(h) == \E i \in Mentions(h) : chan[i].type = "removed"

DownIsEmpty ==
  phase = "down" => chan = <<>> /\ registry = [h \in Handles |-> Unregistered]

(* A handle is given out once: nobody knows the next one yet.               *)
HandlesAreNew ==
  /\ \A h \in OpenHandles \cup Registered : h < next_handle
  /\ \A i \in DOMAIN chan : chan[i].handle < next_handle

(* A window is announced before, and taken back after, everything else that *)
(* is said of it.                                                           *)
AnnouncedFirst ==
  \A i, k \in DOMAIN chan :
    i < k /\ chan[i].handle = chan[k].handle => chan[k].type # "added"
RemovedLast ==
  \A i, k \in DOMAIN chan :
    i < k /\ chan[i].handle = chan[k].handle => chan[i].type # "removed"

AnnouncedIsNew == \A h \in Handles : Announced(h) => h \notin Registered

OpenIsKnown ==
  Up => \A h \in OpenHandles : ~Leaving(h) /\ (Announced(h) \/ h \in Registered \cup dropped)

GoneIsLeaving ==
  \A h \in Handles \ OpenHandles : h \in Registered \/ Mentions(h) # {} => Leaving(h)

(* The last title on its way, or the one that arrived, is the window's.     *)
TitlesFollow ==
  \A h \in OpenHandles \ dropped :
    /\ \A i \in Naming(h) : (\A k \in Naming(h) : k <= i) => chan[i].title = open[h]
    /\ Naming(h) = {} /\ h \in Registered => registry[h].title = open[h]

StreamInv ==
  /\ EventsNameThings /\ DownIsEmpty /\ HandlesAreNew /\ AnnouncedFirst /\ RemovedLast
  /\ AnnouncedIsNew /\ OpenIsKnown /\ GoneIsLeaving /\ TitlesFollow

LEMMA StreamFollowed == TypeOK /\ StreamInv => RegistryFollowsStream
<1> SUFFICES ASSUME TypeOK, StreamInv, Up, chan = <<>>
             PROVE  /\ Registered \subseteq OpenHandles
                    /\ \A h \in OpenHandles \ dropped :
                         h \in Registered /\ registry[h].title = open[h]
  BY DEF RegistryFollowsStream
<1>1. \A h : Mentions(h) = {} /\ Naming(h) = {} /\ ~Announced(h) /\ ~Leaving(h)
  BY DEF Mentions, Naming, Announced, Leaving
<1>2. Registered \subseteq OpenHandles
  BY <1>1 DEF StreamInv, GoneIsLeaving, Registered
<1>3. \A h \in OpenHandles \ dropped : h \in Registered
  BY <1>1 DEF StreamInv, OpenIsKnown
<1> QED BY <1>1, <1>2, <1>3 DEF StreamInv, TitlesFollow

(* Without a shell there is nothing to follow.                              *)
LEMMA DownStream ==
  ASSUME chan = <<>>, registry = [h \in Handles |-> Unregistered], ~Up,
         \A h \in OpenHandles : h < next_handle
  PROVE  StreamInv
<1>1. DOMAIN chan = {} /\ Registered = {}
  BY DEF Registered
<1>2. \A h : Mentions(h) = {} /\ Naming(h) = {} /\ ~Announced(h) /\ ~Leaving(h)
  BY <1>1 DEF Mentions, Naming, Announced, Leaving
<1> QED BY <1>1, <1>2 DEF StreamInv, EventsNameThings, DownIsEmpty, HandlesAreNew,
     AnnouncedFirst, RemovedLast, AnnouncedIsNew, OpenIsKnown, GoneIsLeaving, TitlesFollow

LEMMA DownStreamNext ==
  ASSUME (chan = <<>>)', (registry = [h \in Handles |-> Unregistered])', ~Up',
         \A h \in OpenHandles' : h < next_handle'
  PROVE  StreamInv'
<1>1. DOMAIN chan' = {} /\ Registered' = {}
  BY DEF Registered
<1>2. \A h : Mentions(h)' = {} /\ Naming(h)' = {} /\ ~Announced(h)' /\ ~Leaving(h)'
  BY <1>1 DEF Mentions, Naming, Announced, Leaving
<1> QED BY <1>1, <1>2 DEF StreamInv, EventsNameThings, DownIsEmpty, HandlesAreNew,
     AnnouncedFirst, RemovedLast, AnnouncedIsNew, OpenIsKnown, GoneIsLeaving, TitlesFollow

(* An event m is sent to the shell; the windows that are open and their     *)
(* titles change as it says.                                                *)
Says(m) ==
  /\ m.type = "added" =>
       /\ m.handle = next_handle /\ next_handle' = next_handle + 1
       /\ m.handle \in OpenHandles' /\ open'[m.handle] = m.title
  /\ m.type # "added" =>
       /\ next_handle' = next_handle
       /\ m.handle \in OpenHandles \cup {0}
       /\ \A h \in OpenHandles' : h \in OpenHandles
  /\ m.type = "title" => m.handle \in OpenHandles' /\ open'[m.handle] = m.title
  /\ m.type = "removed" => m.handle \notin OpenHandles'
  /\ m.type \notin {"added", "title", "removed"} => open' = open
  /\ \A h \in Handles \ {m.handle} : open'[h] = open[h]

LEMMA SentStream ==
  ASSUME TypeOK, StreamInv, Up, NEW m \in Events, Names(m), Says(m),
         chan' = Append(chan, m), UNCHANGED <<phase, dropped, registry>>
  PROVE  StreamInv'
<1> USE DEF StreamInv
<1> DEFINE n == Len(chan) + 1
<1>t. chan \in Seq(Events) /\ next_handle \in Nat
  BY TypeParts DEF EnvTypeOK
<1>1. /\ n \in Nat /\ n \in DOMAIN chan' /\ chan'[n] = m
      /\ DOMAIN chan = 1 .. n - 1 /\ DOMAIN chan' = 1 .. n
      /\ \A i \in DOMAIN chan : i \in DOMAIN chan' /\ i < n /\ chan'[i] = chan[i]
      /\ \A i \in DOMAIN chan' : i # n => i \in DOMAIN chan
  BY <1>t
<1> HIDE DEF n
<1>2. \A h : /\ \A i : i \in Mentions(h)' <=> i \in Mentions(h) \/ (i = n /\ m.handle = h)
             /\ \A i : i \in Naming(h)' <=>
                         i \in Naming(h) \/ (i = n /\ m.handle = h /\ m.type \in {"added", "title"})
             /\ Announced(h)' <=> Announced(h) \/ (m.type = "added" /\ m.handle = h)
             /\ Leaving(h)' <=> Leaving(h) \/ (m.type = "removed" /\ m.handle = h)
  BY <1>1 DEF Mentions, Naming, Announced, Leaving
<1>3. UNCHANGED Registered
  BY DEF Registered
<1>h. /\ m.type \in {"added", "title", "removed", "buffer", "buffer_shm"} => m.handle \in Handles
      /\ m.handle \in Int /\ 0 \notin Handles
      /\ \A h \in Handles : h \in OpenHandles <=> open[h] # Closed
      /\ \A h \in Handles : h \in OpenHandles' <=> open'[h] # Closed
  BY DEF Names, Handles, Events, OpenHandles
<1>4. EventsNameThings'
  BY <1>1 DEF EventsNameThings, Names
<1>5. DownIsEmpty'
  BY DEF DownIsEmpty, Up
<1>6. HandlesAreNew'
  <2>1. next_handle' >= next_handle /\ next_handle' \in Nat /\ m.handle < next_handle'
    <3>1. 0 < next_handle
      BY TypeParts DEF EnvTypeOK
    <3> QED BY <1>t, <1>h, <3>1 DEF Says, HandlesAreNew
  <2>2. \A h \in Handles : h \in OpenHandles' => h \in OpenHandles \/ h = m.handle
    BY <1>h DEF Says
  <2>3. \A h \in (OpenHandles \cup Registered)' : h \in Int /\ h < next_handle'
    <3>1. \A h \in OpenHandles \cup Registered : h \in Int /\ h < next_handle'
      BY <1>t, <2>1 DEF HandlesAreNew, OpenHandles, Registered, Handles
    <3>2. OpenHandles' \subseteq Handles
      BY DEF OpenHandles
    <3> QED BY <1>3, <1>h, <2>1, <2>2, <3>1, <3>2
  <2>4. \A i \in DOMAIN chan' : chan'[i].handle < next_handle'
    <3>1. \A i \in DOMAIN chan : chan[i].handle \in Int /\ chan[i].handle < next_handle'
      <4>1. ASSUME NEW i \in DOMAIN chan PROVE chan[i].handle \in Int
        <5>1. chan[i] \in Events
          BY <1>t
        <5> QED BY <5>1 DEF Events
      <4> QED BY <1>t, <2>1, <4>1 DEF HandlesAreNew
    <3> QED BY <1>1, <2>1, <3>1
  <2> QED BY <2>3, <2>4 DEF HandlesAreNew
<1>7. m.type = "added" => /\ \A i \in DOMAIN chan : chan[i].handle # m.handle
                          /\ m.handle \notin OpenHandles \cup Registered
  BY <1>t DEF HandlesAreNew, Says
<1>8. AnnouncedFirst'
  BY <1>1, <1>7 DEF AnnouncedFirst
<1>9. RemovedLast'
  <2>1. ASSUME NEW i \in DOMAIN chan, chan[i].handle = m.handle PROVE chan[i].type # "removed"
    <3>1. CASE m.handle \in OpenHandles
      BY <2>1, <3>1 DEF OpenIsKnown, Leaving, Mentions
    <3>2. CASE m.handle = 0
      BY <1>h, <2>1, <3>2 DEF EventsNameThings, Names
    <3> QED BY <1>7, <2>1, <3>1, <3>2 DEF Says
  <2> QED BY <1>1, <2>1 DEF RemovedLast
<1>10. AnnouncedIsNew'
  BY <1>2, <1>3, <1>7 DEF AnnouncedIsNew
<1>11. OpenIsKnown'
  <2>1. ASSUME NEW h \in OpenHandles'
        PROVE  ~Leaving(h)' /\ (Announced(h)' \/ h \in (Registered \cup dropped)')
    <3>0. h \in Handles
      BY DEF OpenHandles
    <3>1. CASE h \in OpenHandles
      <4>1. ~(m.type = "removed" /\ m.handle = h)
        BY <2>1 DEF Says
      <4> QED BY <1>2, <1>3, <3>1, <4>1 DEF OpenIsKnown
    <3>2. CASE h \notin OpenHandles
      <4>1. m.type = "added" /\ m.handle = h
        BY <1>h, <3>0, <3>2 DEF Says
      <4>2. ~Leaving(h)
        BY <1>7, <4>1 DEF Leaving, Mentions
      <4> QED BY <1>2, <4>1, <4>2
    <3> QED BY <3>1, <3>2
  <2> QED BY <2>1 DEF OpenIsKnown
<1>12. GoneIsLeaving'
  <2>1. ASSUME NEW h \in Handles, h \notin OpenHandles', h \in Registered \/ Mentions(h)' # {}
        PROVE  Leaving(h)'
    <3>1. CASE m.handle = h
      <4>1. m.type = "removed"
        BY <1>h, <2>1, <3>1 DEF Says
      <4> QED BY <1>2, <3>1, <4>1
    <3>2. CASE m.handle # h
      <4>1. h \notin OpenHandles
        BY <1>h, <2>1, <3>2 DEF Says
      <4>2. h \in Registered \/ Mentions(h) # {}
        BY <1>2, <2>1, <3>2
      <4> QED BY <1>2, <4>1, <4>2 DEF GoneIsLeaving
    <3> QED BY <3>1, <3>2
  <2> QED BY <1>3, <2>1 DEF GoneIsLeaving
<1>13. TitlesFollow'
  <2>1. ASSUME NEW h \in OpenHandles', h \notin dropped
        PROVE  /\ \A i \in Naming(h)' : (\A k \in Naming(h)' : k <= i) => chan'[i].title = open'[h]
               /\ Naming(h)' = {} /\ h \in Registered => registry[h].title = open'[h]
    <3>0. h \in Handles
      BY DEF OpenHandles
    <3>d. Naming(h) \subseteq DOMAIN chan
      BY DEF Naming, Mentions
    <3>1. CASE m.handle = h /\ m.type \in {"added", "title"}
      <4>1. open'[h] = m.title /\ n \in Naming(h)'
        BY <1>2, <3>1 DEF Says
      <4>2. ASSUME NEW i \in Naming(h)', \A k \in Naming(h)' : k <= i
            PROVE  i = n
        <5>1. i \in DOMAIN chan \/ i = n
          BY <1>2, <3>d
        <5>2. n <= i
          BY <4>1, <4>2
        <5> QED BY <1>1, <5>1, <5>2
      <4> QED BY <1>1, <4>1, <4>2
    <3>2. CASE ~(m.handle = h /\ m.type \in {"added", "title"})
      <4>1. \A i : i \in Naming(h)' <=> i \in Naming(h)
        BY <1>2, <3>2
      <4>2. h \in OpenHandles /\ open'[h] = open[h]
        BY <1>h, <2>1, <3>0, <3>2 DEF Says
      <4> QED BY <1>1, <2>1, <3>d, <4>1, <4>2 DEF TitlesFollow
    <3> QED BY <3>1, <3>2
  <2> QED BY <1>3, <2>1 DEF TitlesFollow
<1> QED BY <1>4, <1>5, <1>6, <1>8, <1>9, <1>10, <1>11, <1>12, <1>13

LEMMA EnvironmentStream ==
  ASSUME TypeOK, StreamInv, Environment
  PROVE  StreamInv'
<1> USE DEF StreamInv
<1>t. EnvTypeOK /\ chan \in Seq(Events) /\ EventsNameThings /\ next_handle \in Nat \ {0}
  BY TypeParts DEF EnvTypeOK
<1>z. 0 \in 0 .. MaxHandle /\ 0 \in 0 .. MaxBufferId
  OBVIOUS
<1>k. UNCHANGED <<phase, dropped, registry>>
  BY EnvironmentKeeps DEF shellVars, viewVars
<1>d. ASSUME ~Up, \A h \in OpenHandles' : h < next_handle' PROVE chan' = chan => StreamInv'
  <2>1. phase = "down"
    BY <1>d DEF Up
  <2>2. chan = <<>> /\ registry = [h \in Handles |-> Unregistered]
    BY <2>1 DEF DownIsEmpty
  <2> QED BY <1>d, <1>k, <2>1, <2>2, DownStreamNext DEF Up
<1>s. ASSUME NEW m \in Events, Names(m), Says(m), Send(m) PROVE StreamInv'
  <2>1. CASE Up
    BY <1>k, <1>s, <2>1, SentStream DEF Send
  <2>2. CASE ~Up
    <3>1. chan' = chan
      BY <1>s, <2>2 DEF Send
    <3>2. \A h \in OpenHandles' : h < next_handle'
      <4>1. ASSUME NEW h \in OpenHandles' PROVE h < next_handle'
        <5>1. h \in Handles /\ h \in Int
          BY DEF OpenHandles, Handles
        <5>2. h \in OpenHandles => h < next_handle
          BY DEF HandlesAreNew
        <5>3. h \in OpenHandles \/ (h = m.handle /\ m.type = "added")
          <6>1. open'[h] # Closed /\ (h \in OpenHandles <=> open[h] # Closed)
            BY <5>1 DEF OpenHandles
          <6> QED BY <1>s, <5>1, <6>1 DEF Says
        <5> QED BY <1>s, <1>t, <5>1, <5>2, <5>3 DEF Says
      <4> QED BY <4>1
    <3> QED BY <1>d, <2>2, <3>1, <3>2
  <2> QED BY <2>1, <2>2
<1>o. \A h \in Handles : (h \in OpenHandles <=> open[h] # Closed) /\ (h \in OpenHandles' <=> open'[h] # Closed)
  BY DEF OpenHandles
<1>1. ASSUME NEW t \in Titles, WindowOpens(t) PROVE StreamInv'
  <2>1. next_handle \in Handles /\ t # Closed
    BY <1>t, <1>1 DEF WindowOpens, Handles
  <2> DEFINE m == Added(next_handle, t)
  <2>2. m \in Events /\ Names(m)
    BY <2>1, <1>z DEF Added, Event, Events, EventTypes, Names, Handles
  <2>3. m.type = "added" /\ m.handle = next_handle /\ m.title = t /\ Send(m)
    BY <1>1 DEF Added, Event, WindowOpens
  <2> HIDE DEF m
  <2>4. Says(m)
    BY <1>1, <1>t, <1>o, <2>1, <2>3 DEF Says, WindowOpens, EnvTypeOK
  <2> QED BY <1>s, <2>2, <2>3, <2>4
<1>2. ASSUME NEW t \in Titles, NEW h \in Handles, WindowRetitled(h, t) PROVE StreamInv'
  <2> DEFINE m == Event("title", h, t, 0)
  <2>1. t # Closed /\ h \in OpenHandles
    BY <1>2 DEF WindowRetitled
  <2>2. m \in Events /\ Names(m)
    BY <1>z DEF Event, Events, EventTypes, Names, Handles
  <2>3. m.type = "title" /\ m.handle = h /\ m.title = t /\ Send(m)
    BY <1>2 DEF Event, WindowRetitled
  <2> HIDE DEF m
  <2>4. Says(m)
    <3>1. open' = [open EXCEPT ![h] = t] /\ next_handle' = next_handle
      BY <1>2 DEF WindowRetitled
    <3>2. \A g \in OpenHandles' : g \in Handles
      BY DEF OpenHandles
    <3> QED BY <1>t, <1>o, <2>1, <2>3, <3>1, <3>2 DEF Says, EnvTypeOK
  <2> QED BY <1>s, <2>2, <2>3, <2>4
<1>3. ASSUME NEW h \in Handles, WindowCloses(h) PROVE StreamInv'
  <2> DEFINE m == Event("removed", h, Untitled, 0)
  <2>2. m \in Events /\ Names(m)
    BY <1>z DEF Event, Events, EventTypes, Names, Handles
  <2>3. m.type = "removed" /\ m.handle = h /\ Send(m)
    BY <1>3 DEF Event, WindowCloses
  <2> HIDE DEF m
  <2>4. Says(m)
    <3>1. open' = [open EXCEPT ![h] = Closed] /\ next_handle' = next_handle /\ h \in OpenHandles
      BY <1>3 DEF WindowCloses
    <3>2. \A g \in OpenHandles' : g \in Handles
      BY DEF OpenHandles
    <3> QED BY <1>t, <1>o, <2>3, <3>1, <3>2 DEF Says, EnvTypeOK
  <2> QED BY <1>s, <2>2, <2>3, <2>4
<1>k2. ASSUME NEW m, m.type \notin {"added", "title", "removed"}, m.handle \in OpenHandles \cup {0},
              UNCHANGED <<open, next_handle>>
       PROVE  Says(m)
  BY <1>k2 DEF Says, OpenHandles
<1>4. ASSUME NEW h \in Handles, WindowCommits(h) PROVE StreamInv'
  <2>1. PICK id \in {i \in BufferIds : buffers[i] = h} \cup ({next_id} \cap BufferIds) :
       Send(Event(IF id \in ShmIds THEN "buffer_shm" ELSE "buffer", h, Untitled, id))
    BY <1>4 DEF WindowCommits
  <2> DEFINE type == IF id \in ShmIds THEN "buffer_shm" ELSE "buffer"
             m == Event(type, h, Untitled, id)
  <2>2. type \in {"buffer_shm", "buffer"} /\ id \in BufferIds
    OBVIOUS
  <2>3. Send(m)
    BY <2>1
  <2> HIDE DEF type
  <2>4. m \in Events /\ Names(m)
    BY <2>2, <1>z DEF Event, Events, EventTypes, Names, Handles, BufferIds
  <2>5. m.type = type /\ m.handle = h
    BY DEF Event
  <2> HIDE DEF m
  <2>6. Says(m)
    BY <1>4, <1>k2, <2>2, <2>5 DEF WindowCommits
  <2> QED BY <1>s, <2>3, <2>4, <2>6
<1>5. ASSUME NEW id \in BufferIds, BufferDestroyed(id) PROVE StreamInv'
  <2> DEFINE m == Event("forgotten", 0, Untitled, id)
  <2>1. m \in Events /\ Names(m)
    BY <1>z DEF Event, Events, EventTypes, Names, BufferIds
  <2>2. m.type = "forgotten" /\ m.handle = 0 /\ Send(m)
    BY <1>5 DEF Event, BufferDestroyed
  <2> HIDE DEF m
  <2>3. Says(m)
    BY <1>5, <1>k2, <2>2 DEF BufferDestroyed
  <2> QED BY <1>s, <2>1, <2>2, <2>3
<1>6. ASSUME NEW on \in BOOLEAN, ImeRequested(on) PROVE StreamInv'
  <2> DEFINE type == IF on THEN "ime_on" ELSE "ime_off"
             m == Event(type, 0, Untitled, 0)
  <2>1. type \in {"ime_on", "ime_off"}
    OBVIOUS
  <2>2. Send(m)
    BY <1>6 DEF ImeRequested
  <2> HIDE DEF type
  <2>3. m \in Events /\ Names(m)
    BY <1>z, <2>1 DEF Event, Events, EventTypes, Names
  <2>4. m.type = type /\ m.handle = 0
    BY DEF Event
  <2> HIDE DEF m
  <2>5. Says(m)
    BY <1>6, <1>k2, <2>1, <2>4 DEF ImeRequested, envVars
  <2> QED BY <1>s, <2>2, <2>3, <2>5
<1> QED BY <1>1, <1>2, <1>3, <1>4, <1>5, <1>6 DEF Environment

(* What the handler of an event does to the registry.                       *)
Follows(m) ==
  /\ \A g \in Handles : g # m.handle => registry'[g] = registry[g]
  /\ m.type = "added" =>
       m.handle \in dropped' \/ (m.handle \in Registered' /\ registry'[m.handle].title = m.title)
  /\ m.type = "removed" => m.handle \notin Registered'
  /\ m.type # "removed" /\ m.handle \in Registered => m.handle \in Registered'
  /\ m.type = "title" /\ m.handle \in Registered' => registry'[m.handle].title = m.title
  /\ m.type \notin {"added", "title"} /\ m.handle \in Registered \cap Registered' =>
       registry'[m.handle].title = registry[m.handle].title

LEMMA ArrivedStream ==
  ASSUME TypeOK, StreamInv, Up, Up', chan # <<>>, chan' = Tail(chan), UNCHANGED <<open, next_handle>>,
         dropped \subseteq dropped', Follows(Head(chan))
  PROVE  StreamInv'
<1> USE DEF StreamInv
<1> DEFINE n == Len(chan)
<1>0. PICK m : m = Head(chan)
  OBVIOUS
<1>1. /\ m \in Events /\ Names(m) /\ m = chan[1] /\ 1 \in DOMAIN chan
      /\ n \in Nat /\ DOMAIN chan = 1 .. n /\ DOMAIN chan' = 1 .. n - 1
      /\ \A i \in DOMAIN chan' : i + 1 \in DOMAIN chan /\ chan'[i] = chan[i + 1]
      /\ EventsNameThings'
  BY <1>0, TypeParts, HeadTypes
<1> HIDE DEF n
<1>2. \A i \in DOMAIN chan : i # 1 => 1 < i /\ i - 1 \in DOMAIN chan' /\ chan'[i - 1] = chan[i]
  BY <1>1
<1>f. Follows(m) /\ OpenHandles' = OpenHandles
  BY <1>0 DEF OpenHandles
<1>n. next_handle \in Nat
  BY TypeParts DEF EnvTypeOK
<1>r. \A g \in Handles : g # m.handle => (g \in Registered' <=> g \in Registered)
  BY <1>f DEF Follows, Registered
<1>3. \A h : /\ \A i \in Mentions(h)' : i + 1 \in Mentions(h) /\ 1 < i + 1
             /\ \A i \in Naming(h)' : i + 1 \in Naming(h) /\ 1 < i + 1
             /\ Announced(h)' => Announced(h)
             /\ Leaving(h)' => Leaving(h)
  <2>1. \A h : \A i \in Mentions(h)' : i + 1 \in Mentions(h) /\ 1 < i + 1
    BY <1>1 DEF Mentions
  <2>2. \A h : \A i \in Naming(h)' : i + 1 \in Naming(h) /\ 1 < i + 1
    BY <1>1, <2>1 DEF Naming, Mentions
  <2> QED BY <1>1, <2>1, <2>2 DEF Announced, Leaving, Mentions
<1>4. \A h : /\ \A i \in Mentions(h) : i # 1 => i - 1 \in Mentions(h)'
             /\ \A i \in Naming(h) : i # 1 => i - 1 \in Naming(h)'
             /\ Announced(h) => Announced(h)' \/ (m.type = "added" /\ m.handle = h)
             /\ Leaving(h) => Leaving(h)' \/ (m.type = "removed" /\ m.handle = h)
  <2>1. \A h : \A i \in Mentions(h) : i # 1 => i - 1 \in Mentions(h)'
    BY <1>2 DEF Mentions
  <2>2. \A h : \A i \in Naming(h) : i # 1 => i - 1 \in Naming(h)'
    BY <1>2, <2>1 DEF Naming, Mentions
  <2>3. ASSUME NEW h, NEW i \in Mentions(h)
        PROVE  \/ i = 1 /\ m.handle = h /\ m.type = chan[i].type
               \/ i - 1 \in Mentions(h)' /\ chan'[i - 1].type = chan[i].type
    BY <1>1, <1>2, <2>1 DEF Mentions
  <2> QED BY <2>1, <2>2, <2>3 DEF Announced, Leaving
<1>5. DownIsEmpty'
  BY DEF DownIsEmpty, Up
<1>6. HandlesAreNew'
  <2>1. m.handle < next_handle
    BY <1>1 DEF HandlesAreNew
  <2>2. \A h \in Registered' : h \in Registered \/ h = m.handle
    BY <1>r DEF Registered
  <2>3. \A i \in DOMAIN chan' : chan'[i].handle < next_handle
    BY <1>1 DEF HandlesAreNew
  <2> QED BY <1>f, <2>1, <2>2, <2>3 DEF HandlesAreNew
<1>7. AnnouncedFirst' /\ RemovedLast'
  <2>1. \A i, k \in DOMAIN chan' : i < k => i + 1 < k + 1
    BY <1>1
  <2> QED BY <1>1, <2>1 DEF AnnouncedFirst, RemovedLast
<1>8. ~Announced(m.handle)'
  <2>1. ASSUME NEW i \in Mentions(m.handle)' PROVE chan'[i].type # "added"
    <3>1. i + 1 \in Mentions(m.handle) /\ 1 < i + 1 /\ chan'[i] = chan[i + 1]
      BY <1>1, <1>3 DEF Mentions
    <3> QED BY <1>1, <3>1 DEF AnnouncedFirst, Mentions
  <2> QED BY <2>1 DEF Announced
<1>9. AnnouncedIsNew'
  BY <1>3, <1>8, <1>r DEF AnnouncedIsNew
<1>10. OpenIsKnown'
  <2>1. ASSUME NEW h \in OpenHandles
        PROVE  ~Leaving(h)' /\ (Announced(h)' \/ h \in (Registered \cup dropped)')
    <3>1. h \in Handles /\ ~Leaving(h) /\ (Announced(h) \/ h \in Registered \cup dropped)
      BY DEF OpenIsKnown, OpenHandles
    <3>2. CASE h # m.handle
      BY <1>3, <1>4, <1>r, <3>1, <3>2
    <3>3. CASE h = m.handle
      <4>1. m.type # "removed"
        BY <1>1, <3>1, <3>3 DEF Leaving, Mentions
      <4>2. CASE m.type = "added"
        BY <1>3, <1>f, <3>1, <3>3, <4>2 DEF Follows
      <4>3. CASE m.type # "added"
        <5>1. ~Announced(h)
          BY <1>4, <1>8, <3>3, <4>3
        <5> QED BY <1>3, <1>f, <3>1, <3>3, <4>1, <5>1 DEF Follows
      <4> QED BY <4>2, <4>3
    <3> QED BY <3>2, <3>3
  <2> QED BY <1>f, <2>1 DEF OpenIsKnown
<1>11. GoneIsLeaving'
  <2>1. ASSUME NEW h \in Handles, h \notin OpenHandles, h \in Registered' \/ Mentions(h)' # {}
        PROVE  Leaving(h)'
    <3>1. CASE h # m.handle
      <4>1. h \in Registered \/ Mentions(h) # {}
        BY <1>3, <1>r, <2>1, <3>1
      <4>2. Leaving(h)
        BY <2>1, <4>1 DEF GoneIsLeaving
      <4> QED BY <1>4, <3>1, <4>2
    <3>2. CASE h = m.handle
      <4>1. 1 \in Mentions(h)
        BY <1>1, <3>2 DEF Mentions
      <4>2. Leaving(h)
        BY <2>1, <4>1 DEF GoneIsLeaving
      <4>3. CASE m.type = "removed"
        <5>1. PICK i : i \in Mentions(h)'
          BY <1>f, <2>1, <3>2, <4>3 DEF Follows
        <5>2. i + 1 \in DOMAIN chan /\ 1 < i + 1 /\ chan[i + 1].handle = chan[1].handle
          BY <1>1, <1>3, <3>2, <5>1 DEF Mentions
        <5> QED BY <1>1, <4>3, <5>2 DEF RemovedLast
      <4>4. CASE m.type # "removed"
        BY <1>4, <4>2, <4>4
      <4> QED BY <4>3, <4>4
    <3> QED BY <3>1, <3>2
  <2> QED BY <1>f, <2>1 DEF GoneIsLeaving
<1>12. TitlesFollow'
  <2>1. ASSUME NEW h \in OpenHandles, h \notin dropped'
        PROVE  /\ \A i \in Naming(h)' : (\A k \in Naming(h)' : k <= i) => chan'[i].title = open[h]
               /\ Naming(h)' = {} /\ h \in Registered' => registry'[h].title = open[h]
    <3>0. h \in Handles /\ h \notin dropped
      BY <2>1 DEF OpenHandles
    <3>d. Naming(h) \subseteq DOMAIN chan /\ Naming(h)' \subseteq DOMAIN chan'
      BY DEF Naming, Mentions
    <3>1. ASSUME NEW i \in Naming(h)', \A k \in Naming(h)' : k <= i
          PROVE  chan'[i].title = open[h]
      <4>1. i + 1 \in Naming(h) /\ chan'[i] = chan[i + 1] /\ i \in Nat
        BY <1>1, <1>3, <3>d
      <4>2. ASSUME NEW k \in Naming(h) PROVE k <= i + 1
        <5>1. k \in Nat
          BY <1>1, <3>d
        <5>2. CASE k = 1
          BY <4>1, <5>2
        <5>3. CASE k # 1
          <6>1. k - 1 \in Naming(h)'
            BY <1>4, <5>3
          <6>2. k - 1 <= i
            BY <3>1, <6>1
          <6> QED BY <4>1, <5>1, <6>2
        <5> QED BY <5>2, <5>3
      <4> QED BY <3>0, <4>1, <4>2 DEF TitlesFollow
    <3>2. ASSUME Naming(h)' = {}, h \in Registered'
          PROVE  registry'[h].title = open[h]
      <4>1. \A i \in Naming(h) : i = 1
        BY <1>4, <3>2
      <4>2. CASE 1 \in Naming(h)
        <5>1. m.handle = h /\ m.type \in {"added", "title"}
          BY <1>1, <4>2 DEF Naming, Mentions
        <5>2. m.title = open[h]
          <6>1. \A k \in Naming(h) : k <= 1
            BY <4>1
          <6> QED BY <1>1, <3>0, <4>2, <6>1 DEF TitlesFollow
        <5> QED BY <1>f, <2>1, <3>2, <5>1, <5>2 DEF Follows
      <4>3. CASE 1 \notin Naming(h)
        <5>1. Naming(h) = {}
          BY <4>1, <4>3
        <5>2. ~(m.handle = h /\ m.type \in {"added", "title"})
          BY <1>1, <4>3 DEF Naming, Mentions
        <5>3. CASE m.handle # h
          BY <1>f, <1>r, <3>0, <3>2, <5>1, <5>3 DEF Follows, TitlesFollow
        <5>4. CASE m.handle = h
          <6>1. ~Announced(h)
            BY <5>1 DEF Announced, Naming
          <6>2. h \in Registered
            BY <3>0, <6>1 DEF OpenIsKnown
          <6> QED BY <1>f, <3>0, <3>2, <5>1, <5>2, <5>4, <6>2 DEF Follows, TitlesFollow
        <5> QED BY <5>3, <5>4
      <4> QED BY <4>2, <4>3
    <3> QED BY <3>1, <3>2
  <2> QED BY <1>f, <2>1 DEF TitlesFollow
<1> QED BY <1>1, <1>5, <1>6, <1>7, <1>9, <1>10, <1>11, <1>12

LEMMA BuffersFollow ==
  ASSUME ViewTypeOK, ClientTypeOK, NEW h \in Handles, NEW id, NEW fresh \in SUBSET Textures,
         NEW fails, BufferArrives(h, id, fresh, fails)
  PROVE  /\ \A g \in Handles : g # h => registry'[g] = registry[g]
         /\ h \in Registered => h \in Registered' /\ registry'[h].title = registry[h].title
<1> DEFINE e == IF h \in Registered THEN registry[h]
                ELSE [title |-> Untitled, texture |-> NoTexture, card |-> NoCard]
<1>0. e \in Entries /\ (h \in Registered => e = registry[h])
  BY EntryOf DEF Entries, AnyTexture
<1> HIDE DEF e
<1>1. CASE UNCHANGED registry
  BY <1>1 DEF Registered
<1>2. ASSUME NEW t \in Textures, ShowTexture(h, e, t)
      PROVE  /\ \A g \in Handles : g # h => registry'[g] = registry[g]
             /\ h \in Registered => h \in Registered' /\ registry'[h].title = registry[h].title
  <2>1. [e EXCEPT !.texture = t] \in Entries /\ [e EXCEPT !.texture = t].title = e.title
    BY <1>0 DEF Entries, AnyTexture
  <2> QED BY <1>0, <1>2, <2>1 DEF ShowTexture, ViewTypeOK, Registered
<1>3. CASE \E i \in Cached(id) : ShowTexture(h, e, cache[i].texture)
  BY <1>2, <1>3, CacheTypes DEF Cached
<1>4. CASE ImportFailed(h, e)
  BY <1>0, <1>4 DEF ImportFailed, ViewTypeOK, Registered
<1> QED BY <1>1, <1>2, <1>3, <1>4 DEF BufferArrives, e

LEMMA HandlersFollow ==
  ASSUME TypeOK, NEW m \in Events, Names(m), Handle(m),
         m.type = "added" /\ registry' = registry => m.handle \in dropped'
  PROVE  Follows(m)
<1> USE DEF TypeOK, Events, Names, Follows
<1>h. Registered \subseteq Handles
  BY DEF Registered
<1>1. CASE m.type = "added" /\ OnToplevelAdded(m.handle, m.title)
  <2>1. CASE Full /\ m.handle \notin Registered
    BY <1>1, <2>1 DEF OnToplevelAdded, viewVars
  <2>2. CASE ~(Full /\ m.handle \notin Registered)
    <3> DEFINE texture == IF m.handle \in Registered THEN registry[m.handle].texture
                          ELSE NoTexture
    <3>1. PICK c \in CardAddresses :
            registry' = [registry EXCEPT ![m.handle] =
                           [title |-> m.title, texture |-> texture, card |-> c]]
      BY <1>1, <2>2 DEF OnToplevelAdded
    <3>2. [title |-> m.title, texture |-> texture, card |-> c] \in Entries
      <4>1. texture \in AnyTexture
        BY EntryOf, EntryTypes DEF AnyTexture
      <4> QED BY <4>1 DEF CardAddresses, Entries
    <3>3. /\ m.handle \in Registered' /\ registry'[m.handle].title = m.title
          /\ \A g \in Handles : g # m.handle => registry'[g] = registry[g]
      BY <1>1, <3>1, <3>2 DEF ViewTypeOK, Registered
    <3> QED BY <1>1, <3>3
  <2> QED BY <2>1, <2>2
<1>2. CASE m.type = "title" /\ OnToplevelTitleChanged(m.handle, m.title)
  <2>1. \A h \in Registered : [registry[h] EXCEPT !.title = m.title] \in Entries
    BY EntryOf, EntryTypes
  <2> QED BY <1>2, <2>1, EntryOf DEF OnToplevelTitleChanged, ViewTypeOK, Entries, Registered
<1>3. CASE m.type = "removed" /\ OnToplevelRemoved(m.handle)
  BY <1>3 DEF OnToplevelRemoved, ViewTypeOK, Registered
<1>4. CASE m.type = "buffer" /\ OnToplevelBuffer(m.handle, m.id, ImportFails)
  <2>1. FreeTextures \in SUBSET Textures
    BY DEF FreeTextures
  <2> QED BY <1>4, <2>1, BuffersFollow DEF OnToplevelBuffer
<1>5. CASE m.type = "buffer_shm" /\ OnToplevelBufferShm(m.handle, m.id, ImportFails)
  BY <1>5, OldestTypes, BuffersFollow DEF OnToplevelBufferShm
<1>6. CASE m.type = "forgotten" /\ OnBufferForgotten(m.id)
  BY <1>6 DEF OnBufferForgotten, Registered
<1>7. CASE m.type \in {"ime_on", "ime_off"} /\ \E on \in BOOLEAN : OnImeRequest(on)
  BY <1>7 DEF OnImeRequest, Registered
<1> QED BY <1>1, <1>2, <1>3, <1>4, <1>5, <1>6, <1>7 DEF Handle

(* The replay leaves no window out and says none twice.                     *)
LEMMA ReplayIsAll ==
  ASSUME NEW order \in SetToSeqs(OpenHandles)
  PROVE  /\ \A i, k \in DOMAIN order : i # k => order[i] # order[k]
         /\ \A h \in OpenHandles : \E i \in DOMAIN order : order[i] = h
<1> DEFINE n == Cardinality(OpenHandles)
<1>1. order \in [1 .. n -> OpenHandles] /\ \A i, k \in 1 .. n : i # k => order[i] # order[k]
  BY DEF SetToSeqs
<1>2. n \in Nat
  BY OpenIsFinite, FS_CardinalityType
<1>3. Cardinality(1 .. n) = n
  <2> HIDE DEF n
  <2>1. n \in Int /\ 1 \in Int
    BY <1>2
  <2>2. Cardinality(1 .. n) = IF 1 > n THEN 0 ELSE n - 1 + 1
    BY <2>1, FS_Interval
  <2> QED BY <1>2, <2>2
<1>4. order \in Injection(1 .. n, OpenHandles)
  BY <1>1 DEF Injection, IsInjective
<1>5. order \in Surjection(1 .. n, OpenHandles)
  BY <1>3, <1>4, OpenIsFinite, FS_Injection
<1> QED BY <1>1, <1>5 DEF Surjection

LEMMA ReplayStream ==
  ASSUME TypeOK, StreamInv, ShellStarts
  PROVE  StreamInv'
<1> USE DEF StreamInv
<1>1. PICK order \in SetToSeqs(OpenHandles) :
        chan' = Append([i \in DOMAIN order |-> Added(order[i], open[order[i]])], Synced)
  BY DEF ShellStarts
<1>k. UNCHANGED <<open, next_handle, registry, dropped>> /\ phase = "down" /\ phase' = "starting"
  BY DEF ShellStarts, envVars, shellVars, viewVars
<1>c. PICK n : n = Cardinality(OpenHandles)
  OBVIOUS
<1>2. /\ DOMAIN order = 1 .. n /\ n \in Nat
      /\ \A i \in DOMAIN order : order[i] \in OpenHandles
      /\ DOMAIN chan' = 1 .. n + 1
      /\ \A i \in DOMAIN order : i \in DOMAIN chan' /\ chan'[i] = Added(order[i], open[order[i]])
      /\ chan'[n + 1] = Synced
      /\ EventsNameThings'
  BY <1>1, <1>c, ReplayTypes
<1>3. /\ \A i, k \in DOMAIN order : i # k => order[i] # order[k]
      /\ \A h \in OpenHandles : \E i \in DOMAIN order : order[i] = h
  BY ReplayIsAll
<1>4. /\ \A i \in DOMAIN chan' : i \in DOMAIN order \/ i = n + 1
      /\ \A i \in DOMAIN order : i < n + 1 /\ chan'[i].type = "added" /\ chan'[i].handle = order[i]
                                 /\ chan'[i].title = open[order[i]]
      /\ chan'[n + 1].type = "synced" /\ chan'[n + 1].handle = 0
      /\ \A h \in OpenHandles : h \in Handles /\ h # 0
  <2>1. \A i \in DOMAIN chan' : i \in DOMAIN order \/ i = n + 1
    BY <1>2
  <2>2. \A i \in DOMAIN order : i < n + 1
    BY <1>2
  <2>3. \A i \in DOMAIN order :
          /\ chan'[i].type = "added" /\ chan'[i].handle = order[i]
          /\ chan'[i].title = open[order[i]]
    <3>1. \A h, t : Added(h, t).type = "added" /\ Added(h, t).handle = h /\ Added(h, t).title = t
      BY DEF Added, Event
    <3>2. \A i \in DOMAIN order : chan'[i] = Added(order[i], open[order[i]])
      BY <1>2
    <3> QED BY <3>1, <3>2
  <2>4. chan'[n + 1].type = "synced" /\ chan'[n + 1].handle = 0
    BY <1>2 DEF Synced, Event
  <2>5. \A h \in OpenHandles : h \in Handles /\ h # 0
    BY DEF OpenHandles, Handles
  <2> QED BY <2>1, <2>2, <2>3, <2>4, <2>5
<1>5. Registered = {} /\ Registered' = {} /\ OpenHandles' = OpenHandles
  BY <1>k DEF DownIsEmpty, Registered, OpenHandles
<1>6. DownIsEmpty' /\ AnnouncedIsNew'
  BY <1>k, <1>5 DEF DownIsEmpty, AnnouncedIsNew
<1>7. HandlesAreNew'
  <2>1. 0 < next_handle
    BY TypeParts DEF EnvTypeOK
  <2> QED BY <1>k, <1>2, <1>4, <1>5, <2>1 DEF HandlesAreNew
<1>8. AnnouncedFirst'
  <2>1. ASSUME NEW i \in DOMAIN chan', NEW k \in DOMAIN chan', i < k,
               chan'[i].handle = chan'[k].handle
        PROVE  chan'[k].type # "added"
    <3>1. i # k
      BY <1>2, <2>1
    <3>2. CASE k \in DOMAIN order
      <4>1. i \in DOMAIN order
        BY <1>2, <1>4, <2>1, <3>2
      <4> QED BY <1>3, <1>4, <2>1, <3>1, <3>2, <4>1
    <3>3. CASE k = n + 1
      BY <1>4, <3>3
    <3> QED BY <1>4, <3>2, <3>3
  <2> QED BY <2>1 DEF AnnouncedFirst
<1>9. RemovedLast'
  BY <1>4 DEF RemovedLast
<1>10. OpenIsKnown'
  <2>1. \A h : ~Leaving(h)'
    BY <1>4 DEF Leaving, Mentions
  <2>2. \A h \in OpenHandles : Announced(h)'
    BY <1>2, <1>3, <1>4 DEF Announced, Mentions
  <2> QED BY <1>5, <2>1, <2>2 DEF OpenIsKnown
<1>11. GoneIsLeaving'
  <2>1. \A h \in Handles : Mentions(h)' # {} => h \in OpenHandles
    BY <1>2, <1>4 DEF Mentions, Handles
  <2> QED BY <1>5, <2>1 DEF GoneIsLeaving
<1>12. TitlesFollow'
  <2>1. \A h \in OpenHandles : Naming(h)' # {} /\ \A i \in Naming(h)' : i \in DOMAIN order /\ order[i] = h
    <3>1. ASSUME NEW h \in OpenHandles PROVE Naming(h)' # {}
      <4>1. PICK i \in DOMAIN order : order[i] = h
        BY <1>3
      <4>2. i \in Naming(h)'
        BY <1>2, <1>4, <4>1 DEF Naming, Mentions
      <4> QED BY <4>2
    <3>2. ASSUME NEW h \in OpenHandles, NEW i \in Naming(h)'
          PROVE  i \in DOMAIN order /\ order[i] = h
      BY <1>4 DEF Naming, Mentions
    <3> QED BY <3>1, <3>2
  <2> QED BY <1>k, <1>4, <1>5, <2>1 DEF TitlesFollow
<1> QED BY <1>2, <1>6, <1>7, <1>8, <1>9, <1>10, <1>11, <1>12

LEMMA StreamNext == TypeOK /\ StreamInv /\ [Next]_vars => StreamInv'
<1> SUFFICES ASSUME TypeOK, StreamInv, [Next]_vars PROVE StreamInv'
  OBVIOUS
<1>u. UNCHANGED <<open, next_handle, registry, chan, phase, dropped>> => StreamInv'
  BY DEF StreamInv, EventsNameThings, DownIsEmpty, HandlesAreNew, AnnouncedFirst, RemovedLast,
     AnnouncedIsNew, OpenIsKnown, GoneIsLeaving, TitlesFollow, Mentions, Naming, Announced,
     Leaving, Registered, OpenHandles, Up
<1>d. chan # <<>> => Up
  BY DEF StreamInv, DownIsEmpty, Up
<1>1. CASE Environment
  BY <1>1, EnvironmentStream
<1>2. CASE ShellStarts
  BY <1>2, ReplayStream
<1>3. CASE ShellDies
  <2>1. (chan = <<>>)' /\ (registry = [h \in Handles |-> Unregistered])' /\ ~Up'
    BY <1>3 DEF ShellDies, ShellStart, ViewStart, Up
  <2>2. \A h \in OpenHandles' : h < next_handle'
    BY <1>3 DEF ShellDies, envVars, OpenHandles, StreamInv, HandlesAreNew
  <2> QED BY <2>1, <2>2, DownStreamNext
<1>4. CASE SceneLoads
  <2>1. Follows(Head(chan))
    BY <1>4 DEF SceneLoads, viewVars, Follows, Registered, Synced, Event
  <2>2. Up'
    BY <1>4 DEF SceneLoads, Up
  <2> QED BY <1>4, <1>d, <2>1, <2>2, ArrivedStream DEF SceneLoads, envVars
<1>5. CASE EventArrives
  <2>1. Head(chan) \in Events /\ Names(Head(chan))
    BY <1>5, HeadTypes, TypeParts DEF EventArrives, StreamInv
  <2>2. Follows(Head(chan)) /\ dropped \subseteq dropped'
    BY <1>5, <2>1, HandlersFollow DEF EventArrives
  <2>3. Up'
    BY <1>5, <1>d DEF EventArrives, Up
  <2> QED BY <1>5, <1>d, <2>2, <2>3, ArrivedStream DEF EventArrives, envVars
<1>6. CASE Touched
  BY <1>6, <1>u, TouchedMoves DEF envVars
<1>7. CASE Frame
  BY <1>7, <1>u DEF Frame, Tick, envVars
<1>8. CASE UNCHANGED vars
  BY <1>8, <1>u DEF vars, envVars, shellVars, viewVars
<1> QED BY <1>1, <1>2, <1>3, <1>4, <1>5, <1>6, <1>7, <1>8 DEF Next

-----------------------------------------------------------------------------
(* Cards.                                                                   *)

LEMMA CardsKept ==
  ASSUME CardsMirrorRegistry, UNCHANGED <<registry, deck>>
  PROVE  CardsMirrorRegistry'
BY DEF CardsMirrorRegistry, Registered, InDeck

(* No card stands for two windows.                                          *)
LEMMA CardsAreDistinct ==
  ASSUME TypeOK, CardsMirrorRegistry, NEW g \in Registered, NEW h \in Registered,
         registry[g].card = registry[h].card, registry[g].card # NoCard
  PROVE  g = h
<1>1. deck[registry[g].card] = [handle |-> g, label |-> registry[g].title,
                                texture |-> registry[g].texture]
  BY DEF CardsMirrorRegistry
<1>2. deck[registry[h].card] = [handle |-> h, label |-> registry[h].title,
                                texture |-> registry[h].texture]
  BY DEF CardsMirrorRegistry
<1> QED BY <1>1, <1>2

LEMMA AddedCards ==
  ASSUME TypeOK, CardsMirrorRegistry, NEW h \in Handles, NEW t \in Titles,
         h \notin Registered, OnToplevelAdded(h, t)
  PROVE  CardsMirrorRegistry'
<1>1. CASE Full
  BY <1>1, CardsKept DEF OnToplevelAdded, viewVars, clientVars
<1>2. CASE ~Full
  <2>1. PICK c \in CardAddresses :
          /\ registry' = [registry EXCEPT ![h] =
                            [title |-> t, texture |-> NoTexture, card |-> c]]
          /\ deck' = IF c = NoCard THEN deck
                     ELSE [deck EXCEPT ![c] =
                             [handle |-> h, label |-> t, texture |-> NoTexture]]
    BY <1>2 DEF OnToplevelAdded
  <2>2. c = NoCard \/ (c \in Cards /\ c \notin InDeck /\ c # NoCard)
    BY DEF CardAddresses
  <2>3. [title |-> t, texture |-> NoTexture, card |-> c] \in Entries
    BY <2>2 DEF Entries, AnyTexture
  <2>4. /\ h \in Registered' /\ registry'[h] = [title |-> t, texture |-> NoTexture, card |-> c]
        /\ \A g \in Handles : g # h => registry'[g] = registry[g] /\ (g \in Registered' <=> g \in Registered)
    BY <2>1, <2>3 DEF TypeOK, ViewTypeOK, Registered
  <2>5. \A g \in Registered : registry[g].card # NoCard => registry[g].card \in InDeck
    <3>1. ASSUME NEW g \in Registered, registry[g].card # NoCard PROVE registry[g].card \in InDeck
      <4>1. registry[g].card \in Cards
        BY <3>1, EntryOf, EntryTypes DEF TypeOK
      <4>2. deck[registry[g].card] = [handle |-> g, label |-> registry[g].title,
                                      texture |-> registry[g].texture]
        BY <3>1 DEF CardsMirrorRegistry
      <4>3. [handle |-> g, label |-> registry[g].title, texture |-> registry[g].texture] \in Tiles
        BY <3>1, EntryOf, EntryTypes DEF Tiles, TypeOK
      <4> QED BY <4>1, <4>2, <4>3 DEF InDeck
    <3> QED BY <3>1
  <2>6. [handle |-> h, label |-> t, texture |-> NoTexture] \in Tiles
    BY DEF Tiles, AnyTexture
  <2>7. CASE c = NoCard
    <3>1. deck' = deck
      BY <2>1, <2>7
    <3> QED BY <2>4, <2>7, <3>1 DEF CardsMirrorRegistry, Registered, InDeck
  <2>8. CASE c # NoCard
    <3>1. /\ c \in Cards /\ c \notin InDeck
          /\ deck'[c] = [handle |-> h, label |-> t, texture |-> NoTexture]
          /\ \A d \in Cards : d # c => deck'[d] = deck[d]
          /\ \A d \in Cards : d \in InDeck' <=> d \in InDeck \/ d = c
      BY <2>1, <2>2, <2>6, <2>8 DEF TypeOK, ClientTypeOK, InDeck
    <3>2. ASSUME NEW g \in Registered', registry'[g].card # NoCard
          PROVE  deck'[registry'[g].card] = [handle |-> g, label |-> registry'[g].title,
                                             texture |-> registry'[g].texture]
      <4>1. CASE g = h
        BY <2>4, <3>1, <4>1
      <4>2. CASE g # h
        <5>1. g \in Registered /\ registry'[g] = registry[g]
          BY <2>4, <4>2 DEF Registered
        <5>2. registry[g].card \in InDeck /\ registry[g].card \in Cards
          BY <2>5, <3>2, <5>1 DEF InDeck
        <5> QED BY <3>1, <3>2, <5>1, <5>2 DEF CardsMirrorRegistry
      <4> QED BY <4>1, <4>2
    <3>3. ASSUME NEW d \in InDeck'
          PROVE  deck'[d].handle \in Registered' /\ registry'[deck'[d].handle].card = d
      <4>0. d \in Cards
        BY DEF InDeck
      <4>1. CASE d = c
        BY <2>4, <3>1, <4>1
      <4>2. CASE d # c
        <5>1. d \in InDeck /\ deck'[d] = deck[d]
          BY <3>1, <4>0, <4>2
        <5>2. deck[d].handle \in Registered /\ registry[deck[d].handle].card = d
          BY <5>1 DEF CardsMirrorRegistry
        <5>3. deck[d].handle \in Handles /\ deck[d].handle # h
          BY <5>2 DEF Registered
        <5> QED BY <2>4, <5>1, <5>2, <5>3
      <4> QED BY <4>1, <4>2
    <3> QED BY <3>2, <3>3 DEF CardsMirrorRegistry
  <2> QED BY <2>7, <2>8
<1> QED BY <1>1, <1>2

(* What a handler does that gives window h another entry, and its card, if  *)
(* it has one, the same tile as that entry.                                 *)
LEMMA RenewedCards ==
  ASSUME TypeOK, CardsMirrorRegistry, NEW h \in Handles, NEW e \in Entries,
         registry' = [registry EXCEPT ![h] = e],
         IF h \in Registered THEN e.card = registry[h].card ELSE e.card = NoCard,
         deck' = [c \in Cards |->
           IF c = e.card /\ c \in InDeck
           THEN [handle |-> h, label |-> e.title, texture |-> e.texture] ELSE deck[c]]
  PROVE  CardsMirrorRegistry'
<1>1. /\ h \in Registered' /\ registry'[h] = e
      /\ \A g \in Handles : g # h => registry'[g] = registry[g] /\ (g \in Registered' <=> g \in Registered)
  BY DEF TypeOK, ViewTypeOK, Registered
<1>2. [handle |-> h, label |-> e.title, texture |-> e.texture] \in Tiles
  BY EntryTypes DEF Tiles
<1>3. \A c \in Cards : c \in InDeck' <=> c \in InDeck
  BY <1>2 DEF InDeck
<1>4. ASSUME NEW g \in Registered, registry[g].card # NoCard
      PROVE  /\ registry[g].card \in InDeck
             /\ deck[registry[g].card] = [handle |-> g, label |-> registry[g].title,
                                          texture |-> registry[g].texture]
  <2>1. deck[registry[g].card] = [handle |-> g, label |-> registry[g].title,
                                  texture |-> registry[g].texture]
    BY <1>4 DEF CardsMirrorRegistry
  <2>2. [handle |-> g, label |-> registry[g].title, texture |-> registry[g].texture] \in Tiles
    BY EntryOf, EntryTypes DEF Tiles, TypeOK
  <2>3. registry[g].card \in Cards
    BY <1>4, EntryOf, EntryTypes DEF TypeOK
  <2> QED BY <2>1, <2>2, <2>3 DEF InDeck
<1>5. ASSUME NEW g \in Registered', registry'[g].card # NoCard
      PROVE  deck'[registry'[g].card] = [handle |-> g, label |-> registry'[g].title,
                                         texture |-> registry'[g].texture]
  <2>1. CASE g = h
    <3>1. h \in Registered /\ registry[h].card = e.card /\ e.card # NoCard
      BY <1>1, <1>5, <2>1
    <3>2. e.card \in InDeck /\ e.card \in Cards
      BY <1>4, <3>1 DEF InDeck
    <3> QED BY <1>1, <2>1, <3>2
  <2>2. CASE g # h
    <3>1. g \in Registered /\ registry'[g] = registry[g]
      BY <1>1, <2>2 DEF Registered
    <3>2. registry[g].card \in InDeck /\ registry[g].card \in Cards
      BY <1>4, <1>5, <3>1 DEF InDeck
    <3>3. registry[g].card # e.card
      BY <1>5, <2>2, <3>1, CardsAreDistinct
    <3> QED BY <1>4, <1>5, <3>1, <3>2, <3>3
  <2> QED BY <2>1, <2>2
<1>6. ASSUME NEW d \in InDeck'
      PROVE  deck'[d].handle \in Registered' /\ registry'[deck'[d].handle].card = d
  <2>1. d \in Cards /\ d \in InDeck
    BY <1>3 DEF InDeck
  <2>2. deck[d].handle \in Registered /\ registry[deck[d].handle].card = d
    BY <2>1 DEF CardsMirrorRegistry
  <2>3. CASE d = e.card
    BY <1>1, <2>1, <2>3
  <2>4. CASE d # e.card
    <3>1. deck'[d] = deck[d] /\ deck[d].handle # h /\ deck[d].handle \in Handles
      BY <2>1, <2>2, <2>4 DEF Registered
    <3> QED BY <1>1, <2>2, <3>1
  <2> QED BY <2>3, <2>4
<1> QED BY <1>5, <1>6 DEF CardsMirrorRegistry

(* A card in the deck shows its entry.                                      *)
LEMMA TileOfEntry ==
  ASSUME TypeOK, CardsMirrorRegistry, NEW h \in Registered, registry[h].card \in InDeck
  PROVE  deck[registry[h].card] = [handle |-> h, label |-> registry[h].title,
                                   texture |-> registry[h].texture]
BY DEF CardsMirrorRegistry, InDeck

LEMMA TitleCards ==
  ASSUME TypeOK, CardsMirrorRegistry, NEW h \in Handles, NEW t \in Titles,
         OnToplevelTitleChanged(h, t)
  PROVE  CardsMirrorRegistry'
<1>1. CASE h \in Registered
  <2>0. PICK e : e = [registry[h] EXCEPT !.title = t]
    OBVIOUS
  <2>1. /\ e \in Entries /\ e.card = registry[h].card
        /\ e.title = t /\ e.texture = registry[h].texture
    BY <1>1, <2>0, EntryOf, EntryTypes DEF Entries, TypeOK
  <2>2. registry' = [registry EXCEPT ![h] = e]
    BY <1>1, <2>0 DEF OnToplevelTitleChanged
  <2>3. deck' = [c \in Cards |->
           IF c = e.card /\ c \in InDeck
           THEN [handle |-> h, label |-> e.title, texture |-> e.texture] ELSE deck[c]]
    <3>1. ASSUME NEW c \in Cards, c = e.card, c \in InDeck
          PROVE  [deck[c] EXCEPT !.label = t] =
                 [handle |-> h, label |-> e.title, texture |-> e.texture]
      <4>1. deck[c] = [handle |-> h, label |-> registry[h].title, texture |-> registry[h].texture]
        BY <1>1, <2>1, <3>1, TileOfEntry
      <4> QED BY <2>1, <4>1
    <3>2. deck' = [c \in Cards |->
                     IF c = e.card /\ c \in InDeck
                     THEN [deck[c] EXCEPT !.label = t] ELSE deck[c]]
      BY <1>1, <2>1 DEF OnToplevelTitleChanged
    <3> QED BY <3>1, <3>2
  <2> QED BY <1>1, <2>1, <2>2, <2>3, RenewedCards
<1>2. CASE h \notin Registered
  BY <1>2, CardsKept DEF OnToplevelTitleChanged
<1> QED BY <1>1, <1>2

LEMMA BuffersCards ==
  ASSUME TypeOK, CardsMirrorRegistry, NEW h \in Handles, NEW id,
         NEW fresh \in SUBSET Textures, NEW fails, BufferArrives(h, id, fresh, fails)
  PROVE  CardsMirrorRegistry'
<1>0. PICK e : e = IF h \in Registered THEN registry[h]
                ELSE [title |-> Untitled, texture |-> NoTexture, card |-> NoCard]
  OBVIOUS
<1>1. /\ e \in Entries /\ (h \in Registered => e = registry[h])
      /\ (h \notin Registered => e.card = NoCard)
  BY <1>0, EntryOf DEF Entries, AnyTexture, TypeOK
<1>2. CASE UNCHANGED <<registry, deck>>
  BY <1>2, CardsKept
<1>3. ASSUME NEW t \in Textures, ShowTexture(h, e, t) PROVE CardsMirrorRegistry'
  <2>0. PICK r : r = [e EXCEPT !.texture = t]
    OBVIOUS
  <2>1. r \in Entries /\ r.card = e.card /\ r.title = e.title /\ r.texture = t
    BY <1>1, <2>0, EntryTypes DEF Entries, AnyTexture
  <2>2. deck' = [c \in Cards |->
           IF c = r.card /\ c \in InDeck
           THEN [handle |-> h, label |-> r.title, texture |-> r.texture] ELSE deck[c]]
    <3>1. ASSUME NEW c \in Cards, c = r.card, c \in InDeck
          PROVE  [deck[c] EXCEPT !.texture = t] =
                 [handle |-> h, label |-> r.title, texture |-> r.texture]
      <4>1. h \in Registered /\ e = registry[h]
        BY <1>1, <2>1, <3>1
      <4>2. deck[c] = [handle |-> h, label |-> registry[h].title, texture |-> registry[h].texture]
        BY <2>1, <3>1, <4>1, TileOfEntry
      <4> QED BY <2>1, <4>1, <4>2
    <3>2. deck' = [c \in Cards |->
                     IF c = r.card /\ c \in InDeck
                     THEN [deck[c] EXCEPT !.texture = t] ELSE deck[c]]
      BY <1>3, <2>1 DEF ShowTexture
    <3> QED BY <3>1, <3>2
  <2>3. registry' = [registry EXCEPT ![h] = r]
    BY <1>3, <2>0 DEF ShowTexture
  <2> QED BY <1>1, <2>1, <2>2, <2>3, RenewedCards
<1>4. CASE \E i \in Cached(id) : ShowTexture(h, e, cache[i].texture)
  BY <1>3, <1>4, CacheTypes DEF Cached, TypeOK
<1>5. CASE ImportFailed(h, e)
  <2>1. deck' = [c \in Cards |->
           IF c = e.card /\ c \in InDeck
           THEN [handle |-> h, label |-> e.title, texture |-> e.texture] ELSE deck[c]]
    <3>1. ASSUME NEW c \in Cards, c = e.card, c \in InDeck
          PROVE  deck[c] = [handle |-> h, label |-> e.title, texture |-> e.texture]
      BY <1>1, <3>1, TileOfEntry
    <3>2. deck' = deck /\ deck = [c \in Cards |-> deck[c]]
      BY <1>5 DEF ImportFailed, TypeOK, ClientTypeOK
    <3> QED BY <3>1, <3>2
  <2> QED BY <1>1, <1>5, <2>1, RenewedCards DEF ImportFailed
<1> QED BY <1>0, <1>2, <1>3, <1>4, <1>5 DEF BufferArrives

LEMMA RemovedCards ==
  ASSUME TypeOK, CardsMirrorRegistry, NEW h \in Handles, OnToplevelRemoved(h)
  PROVE  CardsMirrorRegistry'
<1>1. /\ h \notin Registered'
      /\ \A g \in Handles : g # h => registry'[g] = registry[g] /\ (g \in Registered' <=> g \in Registered)
  BY DEF OnToplevelRemoved, TypeOK, ViewTypeOK, Registered
<1>2. \A c \in Cards : deck'[c] = IF h \in Registered /\ c = registry[h].card THEN FreeNode ELSE deck[c]
  BY DEF OnToplevelRemoved
<1>3. ASSUME NEW g \in Registered', registry'[g].card # NoCard
      PROVE  deck'[registry'[g].card] = [handle |-> g, label |-> registry'[g].title,
                                         texture |-> registry'[g].texture]
  <2>1. g # h /\ g \in Registered /\ registry'[g] = registry[g]
    BY <1>1 DEF Registered
  <2>2. registry[g].card \in Cards
    BY <1>3, <2>1, EntryOf, EntryTypes DEF TypeOK
  <2>3. h \in Registered => registry[g].card # registry[h].card
    BY <1>3, <2>1, CardsAreDistinct
  <2> QED BY <1>2, <1>3, <2>1, <2>2, <2>3 DEF CardsMirrorRegistry
<1>4. ASSUME NEW d \in InDeck'
      PROVE  deck'[d].handle \in Registered' /\ registry'[deck'[d].handle].card = d
  <2>1. d \in Cards /\ d \in InDeck /\ deck'[d] = deck[d] /\ ~(h \in Registered /\ d = registry[h].card)
    BY <1>2 DEF InDeck
  <2>2. deck[d].handle \in Registered /\ registry[deck[d].handle].card = d
    BY <2>1 DEF CardsMirrorRegistry
  <2>3. deck[d].handle # h /\ deck[d].handle \in Handles
    BY <2>1, <2>2 DEF Registered
  <2> QED BY <1>1, <2>1, <2>2, <2>3
<1> QED BY <1>3, <1>4 DEF CardsMirrorRegistry

LEMMA CardsNext ==
  TypeOK /\ StreamInv /\ CardsMirrorRegistry /\ [Next]_vars => CardsMirrorRegistry'
<1> SUFFICES ASSUME TypeOK, StreamInv, CardsMirrorRegistry, [Next]_vars
             PROVE  CardsMirrorRegistry'
  OBVIOUS
<1>1. CASE Environment
  BY <1>1, CardsKept, EnvironmentKeeps DEF shellVars, viewVars, clientVars
<1>2. CASE ShellStarts
  BY <1>2, CardsKept DEF ShellStarts, shellVars, viewVars, clientVars
<1>3. CASE ShellDies
  <2>1. Registered' = {} /\ InDeck' = {}
    BY <1>3 DEF ShellDies, ShellStart, ViewStart, ClientStart, Registered, InDeck
  <2> QED BY <2>1 DEF CardsMirrorRegistry
<1>4. CASE SceneLoads
  BY <1>4, CardsKept DEF SceneLoads, viewVars
<1>5. CASE EventArrives
  <2>0. PICK m : m = Head(chan)
    OBVIOUS
  <2>1. m \in Events /\ Names(m) /\ m = chan[1] /\ 1 \in DOMAIN chan /\ Handle(m)
    BY <1>5, <2>0, HeadTypes, TypeParts DEF EventArrives, StreamInv
  <2>2. CASE m.type = "added" /\ OnToplevelAdded(m.handle, m.title)
    <3>1. m.handle \in Handles /\ m.handle \notin Registered /\ m.title \in Titles
      BY <2>1, <2>2 DEF Names, Events, StreamInv, AnnouncedIsNew, Announced, Mentions
    <3> QED BY <2>2, <3>1, AddedCards
  <2>3. CASE m.type = "title" /\ OnToplevelTitleChanged(m.handle, m.title)
    BY <2>1, <2>3, TitleCards DEF Names, Events
  <2>4. CASE m.type = "removed" /\ OnToplevelRemoved(m.handle)
    BY <2>1, <2>4, RemovedCards DEF Names
  <2>5. CASE m.type = "buffer" /\ OnToplevelBuffer(m.handle, m.id, ImportFails)
    <3>1. FreeTextures \in SUBSET Textures
      BY DEF FreeTextures
    <3> QED BY <2>1, <2>5, <3>1, BuffersCards DEF OnToplevelBuffer, Names
  <2>6. CASE m.type = "buffer_shm" /\ OnToplevelBufferShm(m.handle, m.id, ImportFails)
    BY <2>1, <2>6, OldestTypes, BuffersCards DEF OnToplevelBufferShm, Names, TypeOK
  <2>7. CASE OnBufferForgotten(m.id)
    BY <2>7, CardsKept DEF OnBufferForgotten
  <2>8. CASE \E on \in BOOLEAN : OnImeRequest(on)
    BY <2>8, CardsKept DEF OnImeRequest, clientVars
  <2> QED BY <2>1, <2>2, <2>3, <2>4, <2>5, <2>6, <2>7, <2>8 DEF Handle
<1>6. CASE Touched
  BY <1>6, CardsKept, TouchedMoves DEF clientVars
<1>7. CASE Frame
  BY <1>7, CardsKept DEF Frame, Tick, clientVars
<1>8. CASE UNCHANGED vars
  BY <1>8, CardsKept DEF vars, shellVars, viewVars, clientVars
<1> QED BY <1>1, <1>2, <1>3, <1>4, <1>5, <1>6, <1>7, <1>8 DEF Next

-----------------------------------------------------------------------------
(* The inductive invariant, and what follows from it.                       *)

IInv ==
  /\ TypeOK /\ StreamInv
  /\ CardsMirrorRegistry /\ FullscreenShowsFocus /\ PressedNodeIsLive

(* What holds besides when a cancelled touch is the only one there is.      *)
TouchIInv == IInv /\ TouchInv /\ GateInv

LEMMA InitEstablishes == Init => TouchIInv
<1> SUFFICES ASSUME Init PROVE TouchIInv
  OBVIOUS
<1>1. TypeOK
  BY InitTypes
<1>2. Registered = {} /\ InDeck = {} /\ OpenHandles = {} /\ ~Up /\ ~Running
  BY DEF Init, ViewInit, ClientInit, Registered, InDeck, OpenHandles, Up, Running
<1>3. StreamInv
  BY <1>2, DownStream DEF Init, ViewInit
<1>4. CardsMirrorRegistry
  BY <1>2 DEF CardsMirrorRegistry
<1>5. FullscreenShowsFocus /\ PressedNodeIsLive
  BY DEF Init, ViewInit, TouchInit, FullscreenShowsFocus, PressedNodeIsLive
<1>6. TouchInv
  BY DEF Init, TouchInit, TouchInv, SameFinger, DragHasTheTouch, NoTapAndDismiss,
         NoTouch, NoDrag
<1>7. GateInv
  BY <1>2 DEF Init, ViewInit, GateInv, FirstFrameIsForced, DirtyIsWoken, DisplayIsWanted
<1> QED BY <1>1, <1>3, <1>4, <1>5, <1>6, <1>7 DEF IInv, TouchIInv

LEMMA StepPreserves == IInv /\ [Next]_vars => IInv'
<1> SUFFICES ASSUME IInv, [Next]_vars PROVE IInv'
  OBVIOUS
<1>1. EventsNameThings
  BY DEF IInv, StreamInv
<1>2. TypeOK' /\ StreamInv'
  BY <1>1, TypesNext, StreamNext DEF IInv
<1>3. CardsMirrorRegistry' /\ FullscreenShowsFocus' /\ PressedNodeIsLive'
  BY <1>1, CardsNext, FocusNext, PressedNext DEF IInv
<1> QED BY <1>2, <1>3 DEF IInv

LEMMA TouchStepPreserves == CancelsAreAlone /\ TouchIInv /\ [Next]_vars => TouchIInv'
<1> SUFFICES ASSUME CancelsAreAlone, TouchIInv, [Next]_vars PROVE TouchIInv'
  OBVIOUS
<1>1. TypeOK /\ EventsNameThings
  BY DEF TouchIInv, IInv, StreamInv
<1>2. IInv' /\ TouchInv'
  BY <1>1, StepPreserves, TouchInvNext DEF TouchIInv
<1>3. GateInv'
  BY <1>1, GateNext DEF TouchIInv
<1> QED BY <1>2, <1>3 DEF TouchIInv

LEMMA Invariance == Spec => []IInv
<1>1. Init => IInv
  BY InitEstablishes DEF TouchIInv
<1> QED BY <1>1, StepPreserves, PTL DEF Spec

(* Every variable of the shell and of its surroundings keeps its type: no   *)
(* handler stores an entry, a card, a texture or a handle that is none.     *)
THEOREM ShellTypes == Spec => []TypeOK
<1>1. IInv => TypeOK
  BY DEF IInv
<1> QED BY <1>1, Invariance, PTL

(* Once every event has arrived, the toplevel registry holds the open       *)
(* windows with their titles and no others, but for those that found it     *)
(* full: over the replay to a shell that restarts, late buffers, windows    *)
(* that close with events on their way, for any number of events in flight. *)
THEOREM RegistryFollowsStreamCorrect == Spec => []RegistryFollowsStream
<1>1. IInv => RegistryFollowsStream
  BY StreamFollowed DEF IInv
<1> QED BY <1>1, Invariance, PTL

(* The cards of the switcher and the registry's entries agree: the handlers *)
(* of meek_shell_v1_client.c update both or neither.                        *)
THEOREM CardsMirrorRegistryCorrect == Spec => []CardsMirrorRegistry
<1>1. IInv => CardsMirrorRegistry
  BY DEF IInv
<1> QED BY <1>1, Invariance, PTL

(* What #fullscreen-app shows and routes taps to is the window that has the *)
(* focus, which is one the shell knows.                                     *)
THEOREM FullscreenShowsFocusCorrect == Spec => []FullscreenShowsFocus
<1>1. IInv => FullscreenShowsFocus
  BY DEF IInv
<1> QED BY <1>1, Invariance, PTL

(* A card that is freed under the finger is not the pressed node any more,  *)
(* with any number of fingers, touches cancelled or not.                    *)
THEOREM PressedNodeIsLiveCorrect == Spec => []PressedNodeIsLive
<1>1. IInv => PressedNodeIsLive
  BY DEF IInv
<1> QED BY <1>1, Invariance, PTL

LEMMA TouchInvariance ==
  ASSUME CancelsAreAlone
  PROVE  Spec => []TouchIInv
<1>1. TouchIInv /\ [Next]_vars => TouchIInv'
  BY TouchStepPreserves
<1> QED BY <1>1, InitEstablishes, PTL DEF Spec

(* One touch does not both open a window and kill it: the card drag that    *)
(* takes a touch over cancels the press.                                    *)
THEOREM NoTapAndDismissCorrect ==
  ASSUME CancelsAreAlone
  PROVE  Spec => []NoTapAndDismiss
<1>1. TouchIInv => NoTapAndDismiss
  BY DEF TouchIInv, TouchInv
<1> QED BY <1>1, TouchInvariance, PTL

(* No handler changes what should be on the screen without waking the       *)
(* render gate: while the last frame is out of date another one is due.     *)
THEOREM ScreenIsNeverStaleCorrect ==
  ASSUME CancelsAreAlone
  PROVE  Spec => []ScreenIsNeverStale
<1>1. TouchIInv => ScreenIsNeverStale
  BY DEF TouchIInv, GateInv, DirtyIsWoken, ScreenIsNeverStale
<1> QED BY <1>1, TouchInvariance, PTL
=============================================================================
