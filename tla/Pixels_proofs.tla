----------------------------- MODULE Pixels_proofs -----------------------------
(***************************************************************************)
(* Proofs about the pixels of Compositor, for any clients, windows,        *)
(* buffers and bounds: what surfaces and the buffer cache point at, what   *)
(* the ids mean that the shell holds, and that the output is the loop of   *)
(* OutputLoop.                                                             *)
(***************************************************************************)
EXTENDS Compositor, TLAPS

(* The variables that these proofs are about, and their part of TypeOK.    *)
bufferVars == <<bound, announced, cacheVars, held, surfaceVars>>

Surfaces ==
  [live : BOOLEAN, pending : Buffers \cup {NoBuffer},
   current : Buffers \cup {NoBuffer},
   last_forwarded : Buffers \cup {NoBuffer},
   forwarded_this_vblank : BOOLEAN, entered_output_sent : BOOLEAN,
   cbs_pending : 0 .. MaxCallbacks, cbs_current : 0 .. MaxCallbacks]

BufferTypeOK ==
  /\ bound \in Clients \cup {NoClient} /\ announced \in BOOLEAN
  /\ buffer_id \in [Buffers -> 0 .. MaxBufferId]
  /\ next_buffer_id \in 1 .. MaxBufferId + 1
  /\ held \in SUBSET BufferIds
  /\ surface \in [Windows -> Surfaces]
  /\ buffer_live \in SUBSET Buffers

(* A surface never has more callbacks waiting than the bound allows: it is *)
(* their sum that surface_frame keeps below it.                            *)
CallbacksBounded ==
  \A w \in Windows : surface[w].cbs_pending + surface[w].cbs_current <= MaxCallbacks

(* No two buffers are cached under one id, ...                             *)
IdsAreDistinct ==
  \A b, c \in Buffers : buffer_id[b] # 0 /\ buffer_id[b] = buffer_id[c] => b = c

(* ... the next id is one that no cached buffer has, ...                   *)
NextIdIsFree == \A b \in Buffers : buffer_id[b] < next_buffer_id

(* ... what the shell holds is cached, ...                                 *)
HeldIsCached == \A id \in held : \E b \in Buffers : buffer_id[b] = id

(* ... and it holds nothing while events are dropped, so that no id is     *)
(* forgotten here without a word to it.                                    *)
DeafShellHoldsNothing == held # {} => Listening

IInv ==
  /\ BufferTypeOK
  /\ CallbacksBounded
  /\ NoDanglingBuffer
  /\ IdsAreDistinct
  /\ NextIdIsFree
  /\ HeldIsCached
  /\ DeafShellHoldsNothing

-----------------------------------------------------------------------------
(* What a step of the composition can do to them. *)

(* One surface gets another record, with the buffers of the old one or one *)
(* that exists.                                                            *)
SurfaceChanges(w) ==
  /\ \E s \in Surfaces :
       /\ s.cbs_pending + s.cbs_current <= MaxCallbacks
       /\ {s.pending, s.current} \subseteq buffer_live \cup {NoBuffer}
       /\ surface' = [surface EXCEPT ![w] = s]
  /\ UNCHANGED <<bound, announced, buffer_live>>

BufferIsSent(b) == \E h : SendBuffer(h, b)

(* The surfaces of ws and the buffers of dead go, the shell's own perhaps. *)
Gone(ws, dead) ==
  /\ SurfacesAndBuffersGone(ws, dead) /\ DropCached(dead)
  /\ \/ FireForgotten(dead) /\ UNCHANGED <<bound, announced>>
     \/ FreeSlot

BufferNext ==
  \/ \E w \in Windows : SurfaceChanges(w) /\ UNCHANGED <<cacheVars, held>>
  \/ \E w \in Windows, b \in buffer_live :
       SurfaceChanges(w) /\ Listening /\ BufferIsSent(b)
  \/ \E ws \in SUBSET Windows, dead \in SUBSET Buffers : Gone(ws, dead)
  \/ \E b \in Buffers : /\ buffer_live' = buffer_live \cup {b}
                        /\ UNCHANGED <<bound, announced, cacheVars, held, surface>>
  \/ \E c \in Clients : TakeSlot(c) /\ UNCHANGED <<cacheVars, held, surfaceVars>>
  \/ announced' = TRUE /\ UNCHANGED <<bound, cacheVars, held, surfaceVars>>
  \/ FreeSlot /\ UNCHANGED <<cacheVars, surfaceVars>>
  \/ FireFrameCallbacks /\ UNCHANGED <<bound, announced, cacheVars, held, buffer_live>>

LEMMA NoSurfaceType ==
  /\ NoSurface \in Surfaces
  /\ NoSurface.pending = NoBuffer /\ NoSurface.current = NoBuffer
  /\ NoSurface.cbs_pending + NoSurface.cbs_current <= MaxCallbacks
BY SurfaceAssumption DEF SurfaceAssumption, NoSurface, Surfaces

(* A destroyed wl_surface is one of Gone, with no buffer that dies.        *)
LEMMA NoBufferDies ==
  ASSUME BufferTypeOK
  PROVE  DropCached({}) <=> UNCHANGED cacheVars
BY DEF BufferTypeOK, DropCached, cacheVars

LEMMA NothingForgotten == FireForgotten({}) <=> held' = held
BY DEF FireForgotten

-----------------------------------------------------------------------------
(* wl_surface.commit, of the shell and of an app.                          *)
LEMMA SwappedSurface ==
  ASSUME IInv, NEW w \in Windows
  PROVE  LET s == Swapped(surface[w]) IN
         /\ s \in Surfaces /\ s.pending = NoBuffer
         /\ s.current = surface[w].pending
         /\ s.cbs_pending + s.cbs_current <= MaxCallbacks
         /\ Forwarded(s) \in Surfaces
         /\ Forwarded(s).pending = s.pending /\ Forwarded(s).current = s.current
         /\ Forwarded(s).cbs_pending = s.cbs_pending
         /\ Forwarded(s).cbs_current = s.cbs_current
<1>1. /\ surface[w] \in Surfaces
      /\ surface[w].cbs_pending \in Nat /\ surface[w].cbs_current \in Nat
      /\ surface[w].cbs_pending + surface[w].cbs_current <= MaxCallbacks
  BY SurfaceAssumption DEF IInv, BufferTypeOK, CallbacksBounded, Surfaces, SurfaceAssumption
<1> DEFINE s == Swapped(surface[w])
<1>2. /\ s \in Surfaces /\ s.pending = NoBuffer
      /\ s.current = surface[w].pending
      /\ s.cbs_pending = 0 /\ s.cbs_current = surface[w].cbs_current + surface[w].cbs_pending
  <2>1. (surface[w].entered_output_sent \/ surface[w].pending # NoBuffer) \in BOOLEAN
    OBVIOUS
  <2>2. /\ surface[w].cbs_current + surface[w].cbs_pending \in 0 .. MaxCallbacks
        /\ 0 \in 0 .. MaxCallbacks
    BY <1>1, SurfaceAssumption DEF SurfaceAssumption
  <2>3. s = [surface[w] EXCEPT !.current = surface[w].pending,
               !.pending = NoBuffer,
               !.cbs_current = surface[w].cbs_current + surface[w].cbs_pending,
               !.cbs_pending = 0,
               !.entered_output_sent =
                  surface[w].entered_output_sent \/ surface[w].pending # NoBuffer]
    BY DEF Swapped
  <2> HIDE DEF s
  <2> QED
    BY <1>1, <2>1, <2>2, <2>3 DEF Surfaces
<1> HIDE DEF s
<1>3. /\ Forwarded(s) \in Surfaces
      /\ Forwarded(s).pending = s.pending /\ Forwarded(s).current = s.current
      /\ Forwarded(s).cbs_pending = s.cbs_pending
      /\ Forwarded(s).cbs_current = s.cbs_current
  BY <1>2 DEF Surfaces, Forwarded
<1> QED
  BY <1>1, <1>2, <1>3 DEF s

LEMMA CommitIsABufferStep ==
  ASSUME IInv, NEW w \in Windows, surface_commit(w)
  PROVE  BufferNext
<1> DEFINE s == Swapped(surface[w])
<1>1. /\ s \in Surfaces /\ Forwarded(s) \in Surfaces
      /\ s.pending = NoBuffer /\ s.current \in buffer_live \cup {NoBuffer}
      /\ s.cbs_pending + s.cbs_current <= MaxCallbacks
      /\ Forwarded(s).pending = s.pending /\ Forwarded(s).current = s.current
      /\ Forwarded(s).cbs_pending + Forwarded(s).cbs_current <= MaxCallbacks
  BY SwappedSurface DEF IInv, NoDanglingBuffer
<1>2. UNCHANGED <<bound, announced, buffer_live>>
      /\ (ShellCommit(w, s) \/ AppCommit(w, s))
  BY DEF surface_commit, slotVars
<1> HIDE DEF s
<1>3. ASSUME surface' = [surface EXCEPT ![w] = s]
             \/ surface' = [surface EXCEPT ![w] = Forwarded(s)]
      PROVE  SurfaceChanges(w)
  BY <1>1, <1>2, <1>3 DEF SurfaceChanges
<1>4. CASE ShellCommit(w, s)
  BY <1>2, <1>3, <1>4 DEF ShellCommit, BufferNext
<1>5. CASE AppCommit(w, s)
  <2>1. PICK h \in (IF PassesGate(s) THEN SurfaceHandle(w) ELSE {0}), sent \in BOOLEAN :
          IF h = 0 THEN /\ surface' = [surface EXCEPT ![w] = s]
                        /\ UNCHANGED <<cacheVars, pixelsVars>>
          ELSE /\ FireBuffer(h, s.current, sent)
               /\ surface' = [surface EXCEPT ![w] = Forwarded(s)]
    BY <1>5 DEF AppCommit
  <2>2. SurfaceChanges(w)
    BY <2>1, <1>3
  <2>3. CASE UNCHANGED <<cacheVars, pixelsVars>>
    BY <2>2, <2>3 DEF BufferNext, pixelsVars
  <2>4. CASE h # 0 /\ Listening /\ SendBuffer(h, s.current)
    <3>1. s.current \in buffer_live
      BY <2>1, <2>4, <1>1 DEF PassesGate
    <3>2. \E k : SendBuffer(k, s.current)
      BY <2>4
    <3> QED
      BY <2>2, <2>4, <3>1, <3>2 DEF BufferNext, BufferIsSent
  <2> QED
    BY <2>1, <2>3, <2>4 DEF FireBuffer
<1> QED
  BY <1>2, <1>4, <1>5

LEMMA EveryStepIsABufferStep == IInv /\ [Next]_vars => [BufferNext]_bufferVars
<1> USE DEF bufferVars, slotVars, cacheVars, pixelsVars, meekVars, surfaceVars
<1> SUFFICES ASSUME IInv, [Next]_vars PROVE BufferNext \/ UNCHANGED bufferVars
  OBVIOUS
<1>1. ASSUME NEW w \in Windows, WindowRequest(w)
      PROVE  BufferNext \/ UNCHANGED bufferVars
  <2>1. CASE compositor_create_surface(w)
    <3>1. [NoSurface EXCEPT !.live = TRUE] \in Surfaces
      BY NoSurfaceType DEF Surfaces
    <3>2. SurfaceChanges(w)
      BY <2>1, <3>1, NoSurfaceType
         DEF compositor_create_surface, CreateSurface, SurfaceChanges, NoSurface
    <3> QED
      BY <2>1, <3>2 DEF compositor_create_surface, BufferNext
  <2>2. CASE \/ wm_base_get_xdg_surface(w) \/ xdg_surface_get_toplevel(w)
             \/ xdg_surface_get_popup(w) \/ \E t \in Titles \ {NoTitle} : toplevel_set_title(w, t)
             \/ window_destroy(w) \/ toplevel_destroy(w) \/ xdg_surface_destroy(w)
    BY <2>2 DEF wm_base_get_xdg_surface, xdg_surface_get_toplevel, xdg_surface_get_popup,
       toplevel_set_title, window_destroy, toplevel_destroy, xdg_surface_destroy
  <2>3. CASE surface_destroy(w)
    <3>1. Gone({w}, {})
      BY <2>3, NoBufferDies, NothingForgotten DEF surface_destroy, Gone, IInv
    <3> QED
      BY <3>1 DEF BufferNext
  <2>4. ASSUME NEW b \in Buffers \cup {NoBuffer}, surface_attach(w, b)
        PROVE  BufferNext
    <3> DEFINE s == [surface[w] EXCEPT !.pending = b]
    <3>1. s \in Surfaces /\ s.pending = b /\ s.current = surface[w].current
          /\ s.cbs_pending = surface[w].cbs_pending /\ s.cbs_current = surface[w].cbs_current
      BY DEF IInv, BufferTypeOK, Surfaces
    <3>2. surface' = [surface EXCEPT ![w] = s] /\ b \in buffer_live \cup {NoBuffer}
      BY <2>4 DEF surface_attach, Attach
    <3> HIDE DEF s
    <3>3. SurfaceChanges(w)
      BY <2>4, <3>1, <3>2 DEF surface_attach, SurfaceChanges, IInv, NoDanglingBuffer,
         CallbacksBounded
    <3> QED
      BY <2>4, <3>3 DEF surface_attach, BufferNext
  <2>5. CASE surface_frame(w)
    <3> DEFINE s == [surface[w] EXCEPT !.cbs_pending = @ + 1]
    <3>1. /\ surface[w] \in Surfaces /\ surface[w].cbs_pending \in Nat
          /\ surface[w].cbs_current \in Nat /\ MaxCallbacks \in Nat
      BY SurfaceAssumption DEF IInv, BufferTypeOK, Surfaces, SurfaceAssumption
    <3>2. surface' = [surface EXCEPT ![w] = s]
          /\ surface[w].cbs_pending + surface[w].cbs_current < MaxCallbacks
      BY <2>5 DEF surface_frame, Frame
    <3>3. s \in Surfaces /\ s.pending = surface[w].pending /\ s.current = surface[w].current
          /\ s.cbs_pending + s.cbs_current <= MaxCallbacks
      BY <3>1, <3>2 DEF Surfaces
    <3> HIDE DEF s
    <3>4. SurfaceChanges(w)
      BY <2>5, <3>2, <3>3 DEF surface_frame, SurfaceChanges, IInv, NoDanglingBuffer
    <3> QED
      BY <2>5, <3>4 DEF surface_frame, BufferNext
  <2>6. CASE surface_commit(w)
    BY <2>6, CommitIsABufferStep
  <2> QED
    BY <1>1, <2>1, <2>2, <2>3, <2>4, <2>5, <2>6 DEF WindowRequest
<1>2. ASSUME NEW b \in Buffers, buffer_create(b) PROVE BufferNext
  BY <1>2 DEF buffer_create, BufferNext
<1>3. ASSUME NEW b \in Buffers, buffer_destroy(b) PROVE BufferNext
  <2>1. Gone({}, {b})
    BY <1>3 DEF buffer_destroy, Gone
  <2>2. {} \in SUBSET Windows /\ {b} \in SUBSET Buffers
    OBVIOUS
  <2> QED
    BY <2>1, <2>2 DEF BufferNext
<1>4. ASSUME NEW c \in Clients, connect(c) PROVE UNCHANGED bufferVars
  BY <1>4 DEF connect
<1>5. ASSUME NEW c \in Clients, disconnect(c) PROVE BufferNext
  <2>1. Gone(WindowsOf(c), BuffersOf(c))
    BY <1>5 DEF disconnect, Gone
  <2>2. WindowsOf(c) \in SUBSET Windows /\ BuffersOf(c) \in SUBSET Buffers
    BY DEF WindowsOf, BuffersOf
  <2> QED
    BY <2>1, <2>2 DEF BufferNext
<1>6. ASSUME NEW c \in Clients, meek_shell_bind(c) PROVE BufferNext
  BY <1>6 DEF meek_shell_bind, BufferNext
<1>7. CASE meek_shell_announce_ready \/ meek_shell_destroy \/ page_flip
  BY <1>7 DEF meek_shell_announce_ready, meek_shell_destroy, page_flip, BufferNext
<1>8. CASE UNCHANGED vars
  BY <1>8 DEF vars
<1> QED
  BY <1>1, <1>2, <1>3, <1>4, <1>5, <1>6, <1>7, <1>8 DEF Next

-----------------------------------------------------------------------------
LEMMA InitEstablishes == Init => IInv
<1> SUFFICES ASSUME Init PROVE IInv
  OBVIOUS
<1> USE DEF Init, MeekInit, SurfaceInit
<1>1. BufferTypeOK
  <2>1. surface \in [Windows -> Surfaces] /\ buffer_live \in SUBSET Buffers
    BY NoSurfaceType
  <2>2. /\ buffer_id \in [Buffers -> 0 .. MaxBufferId]
        /\ next_buffer_id \in 1 .. MaxBufferId + 1
    BY MeekShellAssumption DEF MeekShellAssumption
  <2> QED
    BY <2>1, <2>2 DEF BufferTypeOK
<1>2. CallbacksBounded /\ NoDanglingBuffer
  BY NoSurfaceType DEF CallbacksBounded, NoDanglingBuffer
<1>3. IdsAreDistinct /\ NextIdIsFree /\ HeldIsCached /\ DeafShellHoldsNothing
  BY DEF IdsAreDistinct, NextIdIsFree, HeldIsCached, DeafShellHoldsNothing
<1> QED
  BY <1>1, <1>2, <1>3 DEF IInv

-----------------------------------------------------------------------------
(* What the surfaces point at, operation by operation.                     *)
SurfacesOK ==
  /\ surface \in [Windows -> Surfaces] /\ CallbacksBounded
  /\ \A w \in Windows :
       {surface[w].pending, surface[w].current} \subseteq buffer_live \cup {NoBuffer}

LEMMA SurfaceChangesStep ==
  ASSUME IInv, NEW w \in Windows, SurfaceChanges(w)
  PROVE  SurfacesOK'
<1>1. PICK s \in Surfaces :
        /\ s.cbs_pending + s.cbs_current <= MaxCallbacks
        /\ {s.pending, s.current} \subseteq buffer_live \cup {NoBuffer}
        /\ surface' = [surface EXCEPT ![w] = s]
  BY DEF SurfaceChanges
<1>2. buffer_live' = buffer_live
  BY DEF SurfaceChanges
<1>3. \A v \in Windows : surface'[v] = IF v = w THEN s ELSE surface[v]
  BY <1>1 DEF IInv, BufferTypeOK
<1> QED
  BY <1>1, <1>2, <1>3 DEF IInv, BufferTypeOK, CallbacksBounded, NoDanglingBuffer, SurfacesOK

LEMMA GoneStep ==
  ASSUME IInv, NEW ws \in SUBSET Windows, NEW dead \in SUBSET Buffers,
         SurfacesAndBuffersGone(ws, dead)
  PROVE  SurfacesOK'
<1>1. \A w \in Windows : /\ BufferGone(surface[w], dead) \in Surfaces
                         /\ BufferGone(surface[w], dead).cbs_pending = surface[w].cbs_pending
                         /\ BufferGone(surface[w], dead).cbs_current = surface[w].cbs_current
                         /\ {BufferGone(surface[w], dead).pending,
                             BufferGone(surface[w], dead).current}
                              \subseteq (buffer_live \ dead) \cup {NoBuffer}
  <2> SUFFICES ASSUME NEW s \in Surfaces,
                      {s.pending, s.current} \subseteq buffer_live \cup {NoBuffer}
               PROVE  LET g == BufferGone(s, dead) IN
                      /\ g \in Surfaces
                      /\ g.cbs_pending = s.cbs_pending /\ g.cbs_current = s.cbs_current
                      /\ {g.pending, g.current} \subseteq (buffer_live \ dead) \cup {NoBuffer}
    BY DEF IInv, BufferTypeOK, NoDanglingBuffer
  <2> QED
    BY DEF BufferGone, Surfaces
<1>2. \A w \in Windows : surface'[w] = IF w \in ws THEN NoSurface
                                       ELSE BufferGone(surface[w], dead)
  BY DEF SurfacesAndBuffersGone
<1>3. surface' \in [Windows -> Surfaces]
  BY <1>1, NoSurfaceType DEF SurfacesAndBuffersGone
<1>4. buffer_live' = buffer_live \ dead
  BY DEF SurfacesAndBuffersGone
<1>5. CallbacksBounded'
  BY <1>1, <1>2, NoSurfaceType DEF IInv, CallbacksBounded
<1>6. \A w \in Windows :
        {surface'[w].pending, surface'[w].current} \subseteq buffer_live' \cup {NoBuffer}
  BY <1>1, <1>2, <1>4, NoSurfaceType
<1> QED
  BY <1>3, <1>5, <1>6 DEF SurfacesOK

LEMMA FlipStep ==
  ASSUME IInv, FireFrameCallbacks, UNCHANGED buffer_live
  PROVE  SurfacesOK'
<1>1. surface' \in [Windows -> Surfaces]
  <2>1. ASSUME NEW s \in Surfaces
        PROVE  [s EXCEPT !.cbs_current = 0, !.forwarded_this_vblank = FALSE] \in Surfaces
    <3>1. 0 \in 0 .. MaxCallbacks
      BY SurfaceAssumption DEF SurfaceAssumption
    <3> QED
      BY <3>1 DEF Surfaces
  <2> QED
    BY <2>1 DEF IInv, BufferTypeOK, FireFrameCallbacks
<1>2. \A w \in Windows : /\ surface'[w].pending = surface[w].pending
                         /\ surface'[w].current = surface[w].current
                         /\ surface'[w].cbs_pending = surface[w].cbs_pending
                         /\ surface'[w].cbs_current = 0
                         /\ surface[w].cbs_pending \in 0 .. MaxCallbacks
  BY DEF IInv, BufferTypeOK, FireFrameCallbacks, Surfaces
<1> QED
  BY <1>1, <1>2, SurfaceAssumption
     DEF IInv, NoDanglingBuffer, CallbacksBounded, SurfacesOK, SurfaceAssumption

LEMMA SurfacesStep == IInv /\ [BufferNext]_bufferVars => SurfacesOK'
<1> SUFFICES ASSUME IInv, [BufferNext]_bufferVars PROVE SurfacesOK'
  OBVIOUS
<1>1. ASSUME NEW w \in Windows, SurfaceChanges(w) PROVE SurfacesOK'
  BY <1>1, SurfaceChangesStep
<1>2. ASSUME NEW ws \in SUBSET Windows, NEW dead \in SUBSET Buffers, Gone(ws, dead)
      PROVE  SurfacesOK'
  BY <1>2, GoneStep DEF Gone
<1>3. CASE FireFrameCallbacks /\ UNCHANGED buffer_live
  BY <1>3, FlipStep
<1>4. CASE UNCHANGED surface /\ buffer_live \subseteq buffer_live'
  BY <1>4 DEF IInv, BufferTypeOK, CallbacksBounded, NoDanglingBuffer, SurfacesOK
<1> QED
  BY <1>1, <1>2, <1>3, <1>4 DEF BufferNext, bufferVars, surfaceVars

-----------------------------------------------------------------------------
(* What the ids mean. *)
IdsOK ==
  /\ bound \in Clients \cup {NoClient} /\ announced \in BOOLEAN
  /\ buffer_id \in [Buffers -> 0 .. MaxBufferId]
  /\ next_buffer_id \in 1 .. MaxBufferId + 1
  /\ held \in SUBSET BufferIds
  /\ buffer_live \in SUBSET Buffers
  /\ \A b \in Buffers : buffer_id[b] # 0 => b \in buffer_live
  /\ IdsAreDistinct /\ NextIdIsFree /\ HeldIsCached /\ DeafShellHoldsNothing

LEMMA IdsHold == IInv => IdsOK
BY DEF IInv, BufferTypeOK, NoDanglingBuffer, IdsOK

LEMMA SendStep ==
  ASSUME IdsOK, NEW b \in buffer_live, Listening, BufferIsSent(b),
         UNCHANGED <<bound, announced, buffer_live>>
  PROVE  IdsOK'
<1> DEFINE id == BufferIdFor(b)
<1>1. /\ id \in BufferIds
      /\ buffer_id' = [buffer_id EXCEPT ![b] = id]
      /\ next_buffer_id' = IF id = next_buffer_id THEN id + 1 ELSE next_buffer_id
      /\ held' = held \cup {id}
  BY DEF BufferIsSent, SendBuffer
<1>2. id = IF buffer_id[b] # 0 THEN buffer_id[b] ELSE next_buffer_id
  BY DEF BufferIdFor
<1> HIDE DEF id
<1> USE MeekShellAssumption DEF MeekShellAssumption, IdsOK, BufferIds
<1>3. \A c \in Buffers : buffer_id'[c] = IF c = b THEN id ELSE buffer_id[c]
  BY <1>1
<1>4. \A c \in Buffers : buffer_id[c] = id => c = b
  BY <1>1, <1>2 DEF IdsAreDistinct, NextIdIsFree
<1>5. /\ buffer_id' \in [Buffers -> 0 .. MaxBufferId]
      /\ next_buffer_id' \in 1 .. MaxBufferId + 1
      /\ held' \in SUBSET BufferIds
  BY <1>1
<1>6. IdsAreDistinct' /\ NextIdIsFree'
  BY <1>1, <1>2, <1>3, <1>4 DEF IdsAreDistinct, NextIdIsFree
<1>7. HeldIsCached'
  <2>1. \A i \in held : i = id \/ \E c \in Buffers \ {b} : buffer_id[c] = i
    BY <1>2 DEF HeldIsCached
  <2> QED
    BY <1>1, <1>3, <2>1 DEF HeldIsCached
<1>8. DeafShellHoldsNothing'
  BY DEF DeafShellHoldsNothing, Listening
<1> QED
  BY <1>3, <1>5, <1>6, <1>7, <1>8

(* The shell is told of each id that goes, or it is the one that goes.     *)
LEMMA DropStep ==
  ASSUME IdsOK, NEW dead \in SUBSET Buffers, buffer_live' = buffer_live \ dead,
         DropCached(dead),
         \/ FireForgotten(dead) /\ UNCHANGED <<bound, announced>>
         \/ FreeSlot
  PROVE  IdsOK'
<1> USE DEF IdsOK
<1>1. \A b \in Buffers : buffer_id'[b] = IF b \in dead THEN 0 ELSE buffer_id[b]
  BY DEF DropCached
<1>2. /\ buffer_id' \in [Buffers -> 0 .. MaxBufferId] /\ next_buffer_id' = next_buffer_id
  BY MeekShellAssumption DEF DropCached, MeekShellAssumption
<1>3. IdsAreDistinct' /\ NextIdIsFree'
  BY <1>1, <1>2 DEF IdsAreDistinct, NextIdIsFree
<1>4. held' \in SUBSET held /\ bound' \in Clients \cup {NoClient} /\ announced' \in BOOLEAN
  BY DEF FireForgotten, FreeSlot
<1>5. \A id \in held' : id \notin {buffer_id[b] : b \in dead}
  BY DEF FireForgotten, FreeSlot, DeafShellHoldsNothing
<1>6. HeldIsCached'
  BY <1>1, <1>4, <1>5 DEF HeldIsCached
<1>7. DeafShellHoldsNothing'
  BY <1>4 DEF DeafShellHoldsNothing, Listening, FreeSlot
<1> QED
  BY <1>1, <1>2, <1>3, <1>4, <1>6, <1>7

LEMMA IdsStep == IInv /\ [BufferNext]_bufferVars => IdsOK'
<1> SUFFICES ASSUME IdsOK, [BufferNext]_bufferVars PROVE IdsOK'
  BY IdsHold
<1> USE DEF cacheVars, surfaceVars
<1>1. ASSUME UNCHANGED <<cacheVars, held>>,
             buffer_live' \in SUBSET Buffers, buffer_live \subseteq buffer_live',
             UNCHANGED <<bound, announced>> \/ (\E c \in Clients : TakeSlot(c))
               \/ (announced' = TRUE /\ UNCHANGED bound)
      PROVE  IdsOK'
  <2>1. IdsAreDistinct' /\ NextIdIsFree' /\ HeldIsCached'
    BY <1>1 DEF IdsOK, IdsAreDistinct, NextIdIsFree, HeldIsCached
  <2>2. /\ bound' \in Clients \cup {NoClient} /\ announced' \in BOOLEAN
        /\ Listening => Listening'
    <3>1. CASE UNCHANGED <<bound, announced>>
      BY <3>1 DEF IdsOK, Listening
    <3>2. CASE \E c \in Clients : TakeSlot(c)
      BY <3>2 DEF IdsOK, Listening, TakeSlot
    <3>3. CASE announced' = TRUE /\ UNCHANGED bound
      BY <3>3 DEF IdsOK, Listening
    <3> QED
      BY <1>1, <3>1, <3>2, <3>3
  <2>3. DeafShellHoldsNothing'
    BY <1>1, <2>2 DEF IdsOK, DeafShellHoldsNothing
  <2>4. \A b \in Buffers : buffer_id'[b] # 0 => b \in buffer_live'
    BY <1>1 DEF IdsOK
  <2> QED
    BY <1>1, <2>1, <2>2, <2>3, <2>4 DEF IdsOK
<1>2. ASSUME NEW w \in Windows, NEW b \in buffer_live, SurfaceChanges(w), Listening,
             BufferIsSent(b)
      PROVE  IdsOK'
  BY <1>2, SendStep DEF SurfaceChanges
<1>3. ASSUME NEW ws \in SUBSET Windows, NEW dead \in SUBSET Buffers, Gone(ws, dead)
      PROVE  IdsOK'
  BY <1>3, DropStep DEF Gone, SurfacesAndBuffersGone
<1>4. CASE FreeSlot /\ UNCHANGED <<cacheVars, surfaceVars>>
  BY <1>4 DEF IdsOK, FreeSlot, IdsAreDistinct, NextIdIsFree, HeldIsCached,
     DeafShellHoldsNothing
<1>5. buffer_live \in SUBSET Buffers
  BY DEF IdsOK
<1> QED
  BY <1>1, <1>2, <1>3, <1>4, <1>5 DEF BufferNext, bufferVars, SurfaceChanges

-----------------------------------------------------------------------------
LEMMA NextPreserves == IInv /\ [Next]_vars => IInv'
<1>1. SurfacesOK' /\ IdsOK' => IInv'
  BY DEF SurfacesOK, IdsOK, IInv, BufferTypeOK, NoDanglingBuffer
<1> QED
  BY <1>1, EveryStepIsABufferStep, SurfacesStep, IdsStep

LEMMA Inductive == Spec => []IInv
BY InitEstablishes, NextPreserves, PTL DEF Spec

-----------------------------------------------------------------------------
(* The destroy listeners of surface.c and meek_shell_v1.c: no surface and  *)
(* no entry of the buffer cache points at a wl_buffer that is gone.        *)
THEOREM NoDanglingBufferCorrect == Spec => []NoDanglingBuffer
<1>1. IInv => NoDanglingBuffer
  BY DEF IInv
<1> QED
  BY <1>1, Inductive, PTL

(* buffer_id_for and on_buffer_destroyed: an id that the shell holds a     *)
(* texture for means one buffer, which exists.                             *)
THEOREM HeldIdsNameBuffers == Spec => []HeldIdNamesOneBuffer
<1>1. ASSUME IInv PROVE HeldIdNamesOneBuffer
  <2>1. ASSUME NEW id \in held
        PROVE  \E b \in buffer_live : \A c \in Buffers : buffer_id[c] = id <=> c = b
    <3>1. PICK b \in Buffers : buffer_id[b] = id
      BY <1>1 DEF IInv, HeldIsCached
    <3>2. id # 0
      BY <1>1 DEF IInv, BufferTypeOK, BufferIds
    <3>3. b \in buffer_live
      BY <1>1, <3>1, <3>2 DEF IInv, NoDanglingBuffer
    <3>4. \A c \in Buffers : buffer_id[c] = id <=> c = b
      BY <1>1, <3>1, <3>2 DEF IInv, IdsAreDistinct
    <3> QED
      BY <3>3, <3>4
  <2> QED
    BY <2>1 DEF HeldIdNamesOneBuffer
<1> QED
  BY <1>1, Inductive, PTL

-----------------------------------------------------------------------------
(* The output.  Composed with clients, shells and buffers, output_drm.c is *)
(* the loop that OutputLoop has on its own.                                *)
Loop == INSTANCE OutputLoop WITH Images <- Buffers

LEMMA FlipsAreLoopSteps == Output!OnPageFlip => Loop!OutputNext
BY DEF Output!OnPageFlip, Output!RenderAndPresent, Loop!OutputNext, Loop!OnPageFlip,
       Loop!RenderAndPresent, Output!Drawn, Loop!Drawn

LEMMA CommitsAreLoopSteps ==
  ASSUME NEW b \in Buffers \cup {NoBuffer}, ScanOut(b)
  PROVE  Loop!OutputNext \/ UNCHANGED outputVars
<1>1. CASE Output!ShellDetached
  BY <1>1 DEF Output!ShellDetached, Output!ScheduleFrame, Output!RenderAndPresent,
     Loop!OutputNext, Loop!ShellCommit, Loop!ShellDetached, Loop!ScheduleFrame,
     Loop!RenderAndPresent, Output!Drawn, Loop!Drawn
<1>2. CASE b \in Buffers /\ Output!ShellImported(b)
  <2>1. Loop!ShellImported(b)
    BY <1>2 DEF Output!ShellImported, Output!ScheduleFrame, Output!RenderAndPresent,
       Loop!ShellImported, Loop!ScheduleFrame, Loop!RenderAndPresent,
       Output!Drawn, Loop!Drawn
  <2> QED
    BY <1>2, <2>1 DEF Loop!OutputNext, Loop!ShellCommit
<1>3. CASE Output!ShellImportFailed
  BY <1>3 DEF Output!ShellImportFailed, Loop!OutputNext, Loop!ShellCommit,
     Loop!ShellImportFailed
<1> QED
  BY <1>1, <1>2, <1>3 DEF ScanOut

LEMMA EveryStepIsALoopStep ==
  IInv /\ [Next]_vars => [Loop!OutputNext]_outputVars
<1> SUFFICES ASSUME IInv, [Next]_vars
             PROVE  Loop!OutputNext \/ UNCHANGED outputVars
  BY DEF outputVars
<1>1. ASSUME NEW w \in Windows, WindowRequest(w)
      PROVE  Loop!OutputNext \/ UNCHANGED outputVars
  <2>1. CASE surface_commit(w) /\ owner[w] = bound
    <3>1. ScanOut(Swapped(surface[w]).current)
      BY <2>1 DEF surface_commit, ShellCommit
    <3>2. Swapped(surface[w]).current \in Buffers \cup {NoBuffer}
      BY SwappedSurface DEF Surfaces
    <3> QED
      BY <3>1, <3>2, CommitsAreLoopSteps
  <2>2. CASE surface_commit(w) /\ owner[w] # bound
    BY <2>2 DEF surface_commit, AppCommit, outputVars
  <2>3. CASE \/ compositor_create_surface(w) \/ wm_base_get_xdg_surface(w)
             \/ xdg_surface_get_toplevel(w) \/ xdg_surface_get_popup(w)
             \/ \E t \in Titles \ {NoTitle} : toplevel_set_title(w, t)
             \/ window_destroy(w) \/ toplevel_destroy(w) \/ xdg_surface_destroy(w)
             \/ surface_destroy(w) \/ surface_frame(w)
             \/ \E b \in Buffers \cup {NoBuffer} : surface_attach(w, b)
    BY <2>3 DEF compositor_create_surface, wm_base_get_xdg_surface, xdg_surface_get_toplevel,
       xdg_surface_get_popup, toplevel_set_title, window_destroy, toplevel_destroy,
       xdg_surface_destroy, surface_destroy, surface_frame, surface_attach, outputVars
  <2> QED
    BY <1>1, <2>1, <2>2, <2>3 DEF WindowRequest
<1>2. ASSUME NEW b \in Buffers, buffer_create(b) \/ buffer_destroy(b)
      PROVE  UNCHANGED outputVars
  BY <1>2 DEF buffer_create, buffer_destroy, outputVars
<1>3. ASSUME NEW c \in Clients, connect(c) \/ disconnect(c) \/ meek_shell_bind(c)
      PROVE  UNCHANGED outputVars
  BY <1>3 DEF connect, disconnect, meek_shell_bind, outputVars
<1>4. CASE meek_shell_announce_ready \/ meek_shell_destroy
  BY <1>4 DEF meek_shell_announce_ready, meek_shell_destroy, outputVars
<1>5. CASE page_flip
  BY <1>5, FlipsAreLoopSteps DEF page_flip
<1>6. CASE UNCHANGED vars
  BY <1>6 DEF vars
<1> QED
  BY <1>1, <1>2, <1>3, <1>4, <1>5, <1>6 DEF Next

(* The output of the composition implements the safety part of OutputSpec: *)
(* no request of a client or of the shell, and no crash, reaches it other  *)
(* than as a commit of a shell's surface.                                  *)
THEOREM OutputRefinement ==
  ASSUME DrmActive
  PROVE  Spec => Loop!OutputInit /\ [][Loop!OutputNext]_outputVars
<1>1. Init => Loop!OutputInit
  BY DEF Init, Output!OutputInit, Loop!OutputInit
<1> QED
  BY <1>1, Inductive, EveryStepIsALoopStep, PTL DEF Spec
=============================================================================
