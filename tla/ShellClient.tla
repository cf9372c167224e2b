------------------------------- MODULE ShellClient -------------------------------
(***************************************************************************)
(* meek-shell, the client of meek_shell_v1: one operator per event of the  *)
(* compositor (meek_shell_v1_client.c).  It keeps a card in the switcher's *)
(* deck for each window and a cache of the textures imported, by buffer id.*)
(*                                                                         *)
(* A texture is destroyed when its cache entry goes, while entries, cards  *)
(* and #fullscreen-app keep its name; the driver may hand the name out     *)
(* again to the next import.                                               *)
(***************************************************************************)
EXTENDS ShellView, Sequences, SequencesExt

CONSTANTS
  MaxBufferId,    \* bound: buffer ids the compositor gives out
  CacheMax,       \* _MEEK_SHELL_V1_CLIENT__BUFFER_CACHE_CAP
  FreeNode        \* memory that is no node of the tree

ASSUME ShellClientAssumption == MaxBufferId \in Nat /\ CacheMax \in Nat \ {0}

VARIABLES
  scene,    \* the tree of shell.ui is loaded, and with it #cards-deck
  deck,     \* the card nodes in it: address -> what the card shows
  cache,    \* the texture cache, least recently used first
  gl        \* texture name -> the window whose pixels it holds, 0 if free

clientVars == <<scene, deck, cache, gl>>
textureVars == <<cache, gl>>

BufferIds == 1 .. MaxBufferId
Tiles == [handle : Handles, label : Titles, texture : AnyTexture]

(* A freed node shows nothing. *)
ASSUME FreeNodeAssumption == FreeNode \notin Tiles

InDeck == {c \in Cards : deck[c] # FreeNode}
FreeTextures == {t \in Textures : gl[t] = 0}
Cached(id) == {i \in DOMAIN cache : cache[i].id = id}

ClientInit ==
  /\ scene = FALSE
  /\ deck = [c \in Cards |-> FreeNode]
  /\ cache = <<>>
  /\ gl = [t \in Textures |-> 0]

ClientStart ==
  /\ scene' = FALSE
  /\ deck' = [c \in Cards |-> FreeNode]
  /\ cache' = <<>>
  /\ gl' = [t \in Textures |-> 0]

-----------------------------------------------------------------------------
(* Windows. *)

CardAddresses == IF scene THEN Cards \ InDeck ELSE {NoCard}

OnToplevelAdded(h, t) ==
  IF Full /\ h \notin Registered
  THEN UNCHANGED <<viewVars, clientVars>>
  ELSE
    /\ \E c \in CardAddresses :
         LET texture == IF h \in Registered THEN registry[h].texture ELSE NoTexture
         IN /\ registry' = [registry EXCEPT ![h] =
                              [title |-> t, texture |-> texture, card |-> c]]
            /\ deck' = IF c = NoCard THEN deck
                       ELSE [deck EXCEPT ![c] =
                               [handle |-> h, label |-> t, texture |-> NoTexture]]
            /\ \E in_time \in (IF launch THEN BOOLEAN ELSE {FALSE}) :
                 /\ IF in_time THEN ShowFullscreen(h, texture)
                               ELSE UNCHANGED <<navVars, app>>
                 /\ anim' = (in_time \/ (anim /\ ~launch))
    /\ launch' = FALSE
    /\ RequestRender
    /\ UNCHANGED <<switcher, view, linger, scene, textureVars>>

OnToplevelTitleChanged(h, t) ==
  /\ IF h \in Registered
     THEN /\ registry' = [registry EXCEPT ![h].title = t]
          /\ deck' = [c \in Cards |->
               IF c = registry[h].card /\ c \in InDeck
               THEN [deck[c] EXCEPT !.label = t] ELSE deck[c]]
     ELSE UNCHANGED <<registry, deck>>
  /\ WakeFor(h)
  /\ UNCHANGED <<navVars, app, switcher, launch, anim, view, linger, scene,
                 textureVars>>

(* Mutant: returns early for a window that has no card. *)
OnToplevelRemoved_CardOnly(h) ==
  IF h \in Registered /\ registry[h].card \in Cards
  THEN /\ IF focused = h THEN ShowSwitcher ELSE UNCHANGED navVars
       /\ registry' = [registry EXCEPT ![h] = Unregistered]
       /\ deck' = [deck EXCEPT ![registry[h].card] = FreeNode]
       /\ RequestRender
       /\ UNCHANGED <<app, switcher, launch, anim, view, linger, scene, textureVars>>
  ELSE UNCHANGED <<viewVars, clientVars>>

(* Mutant: the fullscreen view is not left. *)
OnToplevelRemoved_StaysFullscreen(h) ==
  /\ registry' = [registry EXCEPT ![h] = Unregistered]
  /\ deck' = [c \in Cards |->
       IF h \in Registered /\ c = registry[h].card THEN FreeNode ELSE deck[c]]
  /\ RequestRender
  /\ UNCHANGED <<navVars, app, switcher, launch, anim, view, linger, scene,
                 textureVars>>

(* Mutant: the card stays in the deck. *)
OnToplevelRemoved_KeepsCard(h) ==
  /\ IF focused = h THEN ShowSwitcher ELSE UNCHANGED navVars
  /\ registry' = [registry EXCEPT ![h] = Unregistered]
  /\ RequestRender
  /\ UNCHANGED <<app, switcher, launch, anim, view, linger, clientVars>>

OnToplevelRemoved(h) ==
  /\ IF focused = h THEN ShowSwitcher ELSE UNCHANGED navVars
  /\ registry' = [registry EXCEPT ![h] = Unregistered]
  /\ deck' = [c \in Cards |->
       IF h \in Registered /\ c = registry[h].card THEN FreeNode ELSE deck[c]]
  /\ RequestRender
  /\ UNCHANGED <<app, switcher, launch, anim, view, linger, scene, textureVars>>

-----------------------------------------------------------------------------
(* Buffers.  A buffer that was imported before is found in the cache; a new *)
(* one gets a texture of any free name, and a full cache loses its oldest,  *)
(* whose name an shm upload, which makes room first, may get.               *)

Hit(id) ==
  \E i \in Cached(id) :
    /\ cache' = Append(RemoveAt(cache, i), cache[i])
    /\ gl' = gl

Oldest == IF Len(cache) = CacheMax THEN {Head(cache).texture} ELSE {}

Evicted == IF Len(cache) = CacheMax THEN Tail(cache) ELSE cache

Imported(h, id, t) ==
  /\ Cached(id) = {}
  /\ cache' = Append(Evicted, [id |-> id, texture |-> t])
  /\ gl' = [s \in Textures |->
              IF s = t THEN h ELSE IF s \in Oldest THEN 0 ELSE gl[s]]

(* The entry, the card and the fullscreen view of h sample texture t.       *)
ShowTexture(h, e, t) ==
  /\ registry' = [registry EXCEPT ![h] = [e EXCEPT !.texture = t]]
  /\ deck' = [c \in Cards |->
       IF c = e.card /\ c \in InDeck THEN [deck[c] EXCEPT !.texture = t] ELSE deck[c]]
  /\ app' = IF focused = h THEN [app EXCEPT !.texture = t] ELSE app
  /\ WakeFor(h)

(* The import of a dmabuf, or the mapping of an shm pool, fails: only the   *)
(* window that had to be added on the fly stays.                            *)
ImportFailed(h, e) ==
  /\ registry' = [registry EXCEPT ![h] = e]
  /\ UNCHANGED <<app, deck, textureVars, force_render>>

(* A buffer of h arrives; a window whose toplevel_added found the registry   *)
(* full is added now, with no name and no card.                             *)
BufferArrives(h, id, fresh, fails) ==
  /\ IF Full /\ h \notin Registered
     THEN UNCHANGED <<registry, app, deck, textureVars, force_render>>
     ELSE LET e == IF h \in Registered THEN registry[h]
                   ELSE [title |-> Untitled, texture |-> NoTexture, card |-> NoCard]
          IN \/ /\ Cached(id) # {}
                /\ Hit(id)
                /\ \E i \in Cached(id) : ShowTexture(h, e, cache[i].texture)
             \/ \E t \in fresh : Imported(h, id, t) /\ ShowTexture(h, e, t)
             \/ fails /\ ImportFailed(h, e)
  /\ UNCHANGED <<navVars, switcher, launch, anim, view, linger, scene>>

(* A dmabuf is imported once.                                               *)
OnToplevelBuffer(h, id, fails) ==
  BufferArrives(h, id, FreeTextures, fails /\ Cached(id) = {})

(* The pixels of an shm buffer are mapped and uploaded every time.          *)
OnToplevelBufferShm(h, id, fails) ==
  BufferArrives(h, id, FreeTextures \cup Oldest, fails)

(* The texture and its entry go, the names of it stay where they are.       *)
OnBufferForgotten(id) ==
  /\ \/ /\ Cached(id) = {}
        /\ UNCHANGED <<textureVars, force_render>>
     \/ \E i \in Cached(id) :
          /\ cache' = RemoveAt(cache, i)
          /\ gl' = [gl EXCEPT ![cache[i].texture] = 0]
          /\ RequestRender
  /\ UNCHANGED <<registry, navVars, app, switcher, launch, anim, view, linger,
                 scene, deck>>

-----------------------------------------------------------------------------
(* An app asked for the keyboard, or gave it up. *)
OnImeRequest(on) ==
  /\ redirect' = on
  /\ RequestRender
  /\ UNCHANGED <<registry, focused, app, switcher, launch, anim, display, view,
                 linger, clientVars>>

-----------------------------------------------------------------------------
ClientTypeOK ==
  /\ scene \in BOOLEAN
  /\ deck \in [Cards -> Tiles \cup {FreeNode}]
  /\ cache \in Seq([id : BufferIds, texture : Textures])
  /\ Len(cache) <= CacheMax
  /\ gl \in [Textures -> 0 .. MaxHandle]
=============================================================================
