------------------------------- MODULE Renderer -------------------------------
(***************************************************************************)
(* The batching renderers of meek-ui: what the scene submits in a frame    *)
(* (rects, text, images, clips, z-boundaries), how each of the six         *)
(* backends batches it into draws, and what those draws show when the GPU  *)
(* runs them.  Exactly one backend is compiled into the library.           *)
(*                                                                         *)
(* The four streaming backends copy a batch into fresh driver memory at    *)
(* every flush and start again at vertex 0.  Vulkan and D3D12 append to    *)
(* one vertex buffer per frame slot, which recorded draws address until    *)
(* the GPU has run them, possibly while the next frame is recorded.        *)
(***************************************************************************)
EXTENDS Naturals, Sequences, FiniteSets, SequencesExt

CONSTANTS
  Backends,      \* the backends the instance looks at
  Fonts,         \* (family, size) pairs
  Clips,         \* the clip rects the scene pushes, each a set of pixels
  Screen,        \* all pixels
  None,
  MaxFonts,      \* _FONT_INTERNAL__MAX_FONTS
  MaxQuads,      \* MAX_QUADS
  MaxText,       \* MAX_TEXT_QUADS, MAX_TEXT_GLYPHS
  MaxRuns,       \* MAX_TEXT_RUNS
  MaxScissors,   \* MAX_SCISSORS, the length of scissor_stack
  MaxCalls,      \* bound: calls of the scene in all frames
  MaxFrames      \* bound: frames begun

ASSUME RendererAssumption ==
  /\ Backends \subseteq {"opengl3", "gles3", "d3d9", "d3d11", "d3d12", "vulkan"}
  /\ \A c \in Clips : c \subseteq Screen
  /\ {MaxFonts, MaxQuads, MaxText, MaxRuns, MaxScissors} \subseteq Nat \ {0}
  /\ MaxCalls \in Nat /\ MaxFrames \in Nat

VARIABLES
  backend,       \* GUI_RENDERER, fixed when the library is built
  g,             \* the backend's static state struct
  fonts,         \* font.c: cached fonts, least recently used first, and their atlases
  flying,        \* frames handed to the GPU and not finished, oldest first
  nest,          \* the clips the scene has pushed and not popped
  asked,         \* history: what the scene has submitted in the current frame
  painting,      \* between begin_frame and end_frame
  frame,         \* frames begun
  calls          \* calls made

rendererVars == <<backend, g, fonts, flying, nest, asked, painting, frame, calls>>

Appending == backend \in {"vulkan", "d3d12"}
Slots == {0, 1}                       \* MAX_FRAMES, FRAMES_IN_FLIGHT

Under(clips) == FoldSeq(LAMBDA c, seen : c \cap seen, Screen, clips)

(* A recorded draw: the pipeline bound when it was recorded, and its quads *)
(* by content (streaming) or by place in the slot's buffer (appending).    *)
Draw(kind, s, tex, quads) ==
  [kind |-> kind, pipe |-> IF s.pipe = None THEN kind ELSE s.pipe,
   clip |-> s.scissor, tex |-> tex, quads |-> quads]

Places(from, count) == [i \in 1 .. count |-> from + i]
Stored(s, kind, from, count) == [i \in 1 .. count |-> s.vbo[s.slot][kind][from + i]]

FontIn(handle) ==
  IF \E f \in Fonts : fonts.atlas[f] = handle
  THEN CHOOSE f \in Fonts : fonts.atlas[f] = handle
  ELSE None

Empty == [rects |-> 0, drawn |-> 0, images |-> 0, glyphs |-> 0, runs |-> <<>>, undrawn |-> 0]

(* The quads, the z-layer reached, and whether clips nested too deep.       *)
NothingAsked == [quads |-> <<>>, layer |-> 0, deep |-> FALSE]

RendererInit ==
  /\ backend \in Backends
  /\ g = [active |-> FALSE, lost |-> FALSE, slot |-> 0, batch |-> Empty, atlas |-> 0,
          stack |-> <<>>, last |-> None, scissor |-> Screen, pipe |-> None, list |-> <<>>,
          vbo |-> [s \in Slots |-> [rect  |-> [i \in 1 .. MaxQuads |-> None],
                                    glyph |-> [i \in 1 .. MaxText |-> None],
                                    image |-> [i \in 1 .. MaxText |-> None]]]]
  /\ fonts = [recent |-> <<>>, atlas |-> [f \in Fonts |-> 0]]
  /\ flying = <<>> /\ nest = <<>> /\ asked = NothingAsked
  /\ painting = FALSE /\ frame = 0 /\ calls = 0

-----------------------------------------------------------------------------
(* Flushing.                                                               *)

FlushRects(s, bound) ==
  IF s.batch.rects = s.batch.drawn THEN s
  ELSE LET b == [s EXCEPT !.pipe = bound] IN
       [b EXCEPT !.list = Append(@, Draw("rect", b, None,
                                         Places(s.batch.drawn, s.batch.rects - s.batch.drawn))),
                 !.batch.drawn = s.batch.rects]

FlushRectsVulkan(s) == FlushRects(s, "rect")
FlushRectsD3D12(s) == FlushRects(s, s.pipe)       \* draws with whatever is bound

FlushText(s) ==
  IF s.batch.undrawn = Len(s.batch.runs) THEN s
  ELSE LET b == [s EXCEPT !.pipe = "glyph"]
           pending == SubSeq(s.batch.runs, s.batch.undrawn + 1, Len(s.batch.runs))
       IN [b EXCEPT !.list = @ \o [i \in DOMAIN pending |->
                                     Draw("glyph", b, pending[i].atlas,
                                          Places(pending[i].start, pending[i].count))],
                    !.batch.undrawn = Len(s.batch.runs)]

(* The streaming flush: copy out, draw, start again at vertex 0.           *)
StreamRects(s) ==
  IF s.batch.rects = 0 THEN s
  ELSE [s EXCEPT !.list = Append(@, Draw("rect", s, None,
                                         Stored(s, "rect", 0, s.batch.rects))),
                 !.batch.rects = 0]

StreamText(s) ==
  IF s.batch.glyphs = 0 \/ s.batch.runs = <<>> THEN s
  ELSE [s EXCEPT !.list = @ \o [i \in DOMAIN s.batch.runs |->
                                  LET run == s.batch.runs[i] IN
                                  Draw("glyph", s, FontIn(run.atlas),
                                       Stored(s, "glyph", run.start, run.count))],
                 !.batch.glyphs = 0, !.batch.runs = <<>>]

FlushBatches(s) ==
  LET t == StreamText(StreamRects(s)) IN
  IF t.batch.runs = s.batch.runs THEN t ELSE [t EXCEPT !.atlas = 0]
FlushBatchesGles(s) == StreamText(StreamRects(s))

Flush(s) ==
  IF ~s.active THEN s
  ELSE CASE backend = "vulkan" -> FlushText(FlushRectsVulkan(s))
         [] backend = "d3d12"  -> FlushText(FlushRectsD3D12(s))
         [] backend = "gles3"  -> FlushBatchesGles(s)
         [] OTHER              -> FlushBatches(s)

-----------------------------------------------------------------------------
(* Submitting.  A quad that finds its buffer full is dropped.              *)

Store(s, kind, at, quad) == [s EXCEPT !.vbo[s.slot][kind][at] = quad]

SubmitRect(s, quad) ==
  IF ~s.active \/ s.batch.rects = MaxQuads THEN s
  ELSE [Store(s, "rect", s.batch.rects + 1, quad) EXCEPT !.batch.rects = @ + 1]

AddGlyph(s, quad, runs) ==
  [Store(s, "glyph", s.batch.glyphs + 1, quad) EXCEPT
     !.batch.glyphs = @ + 1,
     !.batch.runs = [runs EXCEPT ![Len(runs)].count = @ + 1]]

(* The last run is extended only while it waits to be drawn and samples    *)
(* the same atlas.                                                         *)
Extends(s) ==
  Len(s.batch.runs) > s.batch.undrawn /\ Last(s.batch.runs).atlas = s.atlas

SubmitTextGlyph(s, quad) ==
  LET runs == s.batch.runs
      fresh == [atlas |-> s.atlas, start |-> s.batch.glyphs, count |-> 0]
  IN IF ~s.active \/ s.atlas = 0 \/ s.batch.glyphs = MaxText THEN s
     ELSE IF Extends(s) THEN AddGlyph(s, quad, runs)
     ELSE IF Len(runs) = MaxRuns THEN s
     ELSE AddGlyph(s, quad, Append(runs, fresh))

SubmitImageStreaming(s, quad) ==
  LET t == Flush(s) IN
  IF ~s.active THEN s
  ELSE [t EXCEPT !.list = Append(@, Draw("image", t, None, <<quad>>))]

SubmitImageD3D12(s, quad) ==
  LET t == Flush(s)
      b == [Store(t, "image", t.batch.images + 1, quad) EXCEPT !.pipe = "image"]
  IN IF ~s.active THEN s
     ELSE IF t.batch.images = MaxText THEN t
     ELSE [b EXCEPT !.list = Append(@, Draw("image", b, None, <<t.batch.images + 1>>)),
                    !.batch.images = @ + 1, !.pipe = "rect"]

SubmitImage(s, quad) ==
  CASE backend = "vulkan" -> SubmitRect(s, quad)     \* no image pipeline: a tinted rect
    [] backend = "d3d12"  -> SubmitImageD3D12(s, quad)
    [] OTHER              -> SubmitImageStreaming(s, quad)

ImageKind == IF backend = "vulkan" THEN "rect" ELSE "image"

-----------------------------------------------------------------------------
(* Clipping.                                                               *)

Apply(s) == [s EXCEPT !.scissor = IF s.active THEN Under(s.stack) ELSE @]

PushVulkan(s, clip) ==
  IF Len(s.stack) = MaxScissors THEN s
  ELSE Apply([Flush(s) EXCEPT !.stack = Append(@, clip \cap Under(s.stack))])

RebindD3D12(s, t) == [t EXCEPT !.pipe = IF s.active /\ s.batch.runs # <<>> THEN "rect" ELSE @]

PushD3D12(s, clip) ==
  IF Len(s.stack) = MaxScissors THEN s
  ELSE Apply([RebindD3D12(s, Flush(s)) EXCEPT !.stack = Append(@, clip \cap Under(s.stack))])

PushStreaming(s, clip) ==
  LET t == Flush(s) IN
  IF Len(s.stack) = MaxScissors THEN t ELSE Apply([t EXCEPT !.stack = Append(@, clip)])

(* Mutant: the last clip is remembered after the stack is empty.           *)
ApplyGles_Stale(s) ==
  [s EXCEPT !.scissor = Under(s.stack), !.last = IF s.stack = <<>> THEN @ ELSE Under(s.stack)]

(* gles3 keeps the batch open when the effective clip does not change.     *)
ApplyGles(s) ==
  IF s.stack = <<>> THEN [s EXCEPT !.scissor = Screen, !.last = None]
  ELSE [s EXCEPT !.scissor = Under(s.stack), !.last = Under(s.stack)]

PushGles(s, clip) ==
  LET t == [s EXCEPT !.stack = Append(@, clip)] IN
  IF Len(s.stack) = MaxScissors THEN s
  ELSE IF t.last = Under(t.stack) THEN t ELSE ApplyGles(Flush(t))

PopGles(s) ==
  LET t == [s EXCEPT !.stack = Front(@)] IN
  IF s.stack = <<>> THEN s
  ELSE IF t.stack # <<>> /\ t.last = Under(t.stack) THEN t ELSE ApplyGles(Flush(t))

PopD3D12(s) ==
  IF s.stack = <<>> THEN s
  ELSE Apply([RebindD3D12(s, Flush(s)) EXCEPT !.stack = Front(@)])

PopVulkan(s) == IF s.stack = <<>> THEN s ELSE Apply([Flush(s) EXCEPT !.stack = Front(@)])

PopStreaming(s) ==
  LET t == Flush(s) IN
  IF s.stack = <<>> THEN t ELSE Apply([t EXCEPT !.stack = Front(@)])

PushScissor(s, clip) ==
  CASE backend = "vulkan" -> PushVulkan(s, clip)
    [] backend = "d3d12"  -> PushD3D12(s, clip)
    [] backend = "gles3"  -> PushGles(s, clip)
    [] OTHER              -> PushStreaming(s, clip)

PopScissor(s) ==
  CASE backend = "vulkan" -> PopVulkan(s)
    [] backend = "d3d12"  -> PopD3D12(s)
    [] backend = "gles3"  -> PopGles(s)
    [] OTHER              -> PopStreaming(s)

-----------------------------------------------------------------------------
(* Fonts: font__at looks a font up, and makes room for a new atlas by      *)
(* destroying the least recently used one.                                 *)

Cached(f) == fonts.atlas[f] # 0
FullCache == Len(fonts.recent) = MaxFonts
Victim == Head(fonts.recent)
FreeHandle == CHOOSE h \in 1 .. MaxFonts :
  \A f \in Fonts : fonts.atlas[f] = h => FullCache /\ f = Victim

FontsAfter(f) ==
  IF Cached(f) THEN [fonts EXCEPT !.recent = Append(Remove(@, f), f)]
  ELSE LET kept == IF FullCache THEN [recent |-> Tail(fonts.recent),
                                      atlas |-> [fonts.atlas EXCEPT ![Victim] = 0]]
                                ELSE fonts
       IN [recent |-> Append(kept.recent, f), atlas |-> [kept.atlas EXCEPT ![f] = FreeHandle]]

Evicts(f) == ~Cached(f) /\ FullCache

(* Mutant: the atlas is freed under the frame that samples it.             *)
DestroyAtlasWaits_Never == FALSE

(* Vulkan and D3D12 wait until the GPU is idle before they free an atlas.  *)
DestroyAtlasWaits == Appending
FlyingAfter(f) == IF Evicts(f) /\ DestroyAtlasWaits THEN <<>> ELSE flying

DestroyAtlas(s, handle) ==
  IF s.atlas = handle /\ backend # "gles3" THEN [s EXCEPT !.atlas = 0] ELSE s

SetTextAtlas(s, handle) == [s EXCEPT !.atlas = handle]

-----------------------------------------------------------------------------
(* The scene's calls, between begin_frame and end_frame.                   *)

Call == painting /\ calls < MaxCalls /\ calls' = calls + 1
Asks(kind, font) ==
  asked' = [asked EXCEPT !.quads = Append(@, [kind |-> kind, font |-> font, clip |-> Under(nest),
                                              layer |-> asked.layer])]
NextQuad == <<frame, Len(asked.quads) + 1>>

Rect ==
  /\ Call
  /\ g' = SubmitRect(g, NextQuad)
  /\ Asks("rect", None)
  /\ UNCHANGED <<backend, fonts, flying, nest, painting, frame>>

(* font__draw_n after font__at: one glyph stands for the run of a label.   *)
Text(f) ==
  /\ Call
  /\ LET s == IF Evicts(f) THEN DestroyAtlas(g, fonts.atlas[Victim]) ELSE g
     IN g' = SubmitTextGlyph(SetTextAtlas(s, FontsAfter(f).atlas[f]), NextQuad)
  /\ fonts' = FontsAfter(f)
  /\ flying' = FlyingAfter(f)
  /\ Asks("glyph", f)
  /\ UNCHANGED <<backend, nest, painting, frame>>

Image ==
  /\ Call
  /\ g' = SubmitImage(g, NextQuad)
  /\ Asks(ImageKind, None)
  /\ UNCHANGED <<backend, fonts, flying, nest, painting, frame>>

(* A shadow is a stack of rects, each dropped on its own when the buffer   *)
(* is full; two stand for the two to eight of the code.                    *)
Shadow ==
  /\ Call
  /\ LET second == <<frame, Len(asked.quads) + 2>>
         layer == [kind |-> "rect", font |-> None, clip |-> Under(nest), layer |-> asked.layer]
     IN /\ g' = SubmitRect(SubmitRect(g, NextQuad), second)
        /\ asked' = [asked EXCEPT !.quads = @ \o <<layer, layer>>]
  /\ UNCHANGED <<backend, fonts, flying, nest, painting, frame>>

(* opengl3 reads the framebuffer back and draws it blurred, or, out of     *)
(* memory, dims it like the other backends.                                *)
BlurRegion ==
  /\ Call
  /\ \/ backend = "opengl3" /\ g' = SubmitImageStreaming(g, NextQuad) /\ Asks("image", None)
     \/ backend = "opengl3" /\ g' = SubmitRect(Flush(g), NextQuad) /\ Asks("rect", None)
     \/ backend # "opengl3" /\ g' = SubmitRect(g, NextQuad) /\ Asks("rect", None)
  /\ UNCHANGED <<backend, fonts, flying, nest, painting, frame>>

(* Where a clip begins or ends on the bare screen, as an overlay's does,   *)
(* a new layer begins.                                                     *)
Push(clip) ==
  /\ Call
  /\ g' = PushScissor(g, clip)
  /\ nest' = Append(nest, clip)
  /\ asked' = [asked EXCEPT !.layer = IF nest = <<>> THEN @ + 1 ELSE @,
                            !.deep = @ \/ Len(nest) = MaxScissors]
  /\ UNCHANGED <<backend, fonts, flying, painting, frame>>

Pop ==
  /\ painting /\ nest # <<>>
  /\ g' = PopScissor(g)
  /\ nest' = Front(nest)
  /\ asked' = [asked EXCEPT !.layer = IF Len(nest) = 1 THEN @ + 1 ELSE @]
  /\ UNCHANGED <<backend, fonts, flying, painting, frame, calls>>

(* Mutant: nothing is flushed.                                             *)
ZBoundary_None ==
  /\ Call
  /\ asked' = [asked EXCEPT !.layer = @ + 1]
  /\ UNCHANGED <<backend, g, fonts, flying, nest, painting, frame>>

(* renderer__flush_pending_draws.                                          *)
ZBoundary ==
  /\ Call
  /\ g' = Flush(g)
  /\ asked' = [asked EXCEPT !.layer = @ + 1]
  /\ UNCHANGED <<backend, fonts, flying, nest, painting, frame>>

-----------------------------------------------------------------------------
(* Frames.                                                                 *)

Started(s, live) ==
  [s EXCEPT !.active = live, !.batch = Empty, !.list = <<>>, !.scissor = Screen,
            !.pipe = IF backend = "d3d12" THEN "rect" ELSE None]

(* Mutant: the slot is overwritten while the GPU reads it.                 *)
SlotIsFree_Assumed == TRUE

SlotIsFree == \A i \in DOMAIN flying : flying[i].slot # g.slot

(* Both appending backends wait for the fence of the slot they are about   *)
(* to overwrite; Vulkan may then get no image and skip the frame.          *)
BeginVulkan == SlotIsFree /\ \E acquired \in BOOLEAN : g' = Started(g, acquired)
BeginD3D12 == SlotIsFree /\ g' = Started(g, TRUE)
BeginStreaming == g' = Started(g, TRUE)
BeginD3D9 == g' = IF g.lost THEN g ELSE Started(g, TRUE)

BeginFrame ==
  /\ ~painting /\ frame < MaxFrames
  /\ painting' = TRUE
  /\ frame' = frame + 1
  /\ asked' = NothingAsked
  /\ \/ backend = "vulkan" /\ BeginVulkan
     \/ backend = "d3d12" /\ BeginD3D12
     \/ backend = "d3d9" /\ BeginD3D9
     \/ backend \in {"opengl3", "gles3", "d3d11"} /\ BeginStreaming
  /\ UNCHANGED <<backend, fonts, flying, nest, calls>>

Submitted(s) ==
  Append(flying, [slot |-> s.slot, frame |-> frame, list |-> s.list, asked |-> asked])

EndAppending ==
  LET s == Flush(g) IN
  /\ flying' = IF g.active THEN Submitted(s) ELSE flying
  /\ g' = [s EXCEPT !.active = FALSE, !.list = <<>>, !.slot = 1 - @]

EndStreaming ==
  LET s == Flush(g) IN
  /\ flying' = Submitted(s)
  /\ g' = [s EXCEPT !.list = <<>>, !.stack = <<>>, !.scissor = Screen]

(* d3d9: Present may report the device lost, which the backend never       *)
(* recovers from.                                                          *)
EndD3D9 ==
  \/ g.lost /\ UNCHANGED <<g, flying>>
  \/ ~g.lost /\ EndStreaming
  \/ /\ ~g.lost
     /\ g' = [Flush(g) EXCEPT !.lost = TRUE, !.active = FALSE, !.list = <<>>]
     /\ UNCHANGED flying

EndFrame ==
  /\ painting /\ nest = <<>>
  /\ painting' = FALSE
  /\ \/ Appending /\ EndAppending
     \/ backend = "d3d9" /\ EndD3D9
     \/ backend \in {"opengl3", "gles3", "d3d11"} /\ EndStreaming
  /\ UNCHANGED <<backend, fonts, nest, asked, frame, calls>>

(* The GPU runs the frames in the order they were handed over.             *)
GpuDone ==
  /\ flying # <<>>
  /\ flying' = Tail(flying)
  /\ UNCHANGED <<backend, g, fonts, nest, asked, painting, frame, calls>>

RendererNext ==
  \/ BeginFrame \/ EndFrame \/ GpuDone
  \/ Rect \/ Shadow \/ Image \/ BlurRegion \/ ZBoundary \/ Pop
  \/ \E f \in Fonts : Text(f)
  \/ \E c \in Clips : Push(c)

RendererSpec == RendererInit /\ [][RendererNext]_rendererVars

-----------------------------------------------------------------------------
RendererTypeOK ==
  /\ backend \in Backends
  /\ g.slot \in Slots /\ g.active \in BOOLEAN /\ g.lost \in BOOLEAN
  /\ g.batch.rects \in 0 .. MaxQuads /\ g.batch.drawn \in 0 .. g.batch.rects
  /\ g.batch.glyphs \in 0 .. MaxText /\ g.batch.undrawn \in 0 .. Len(g.batch.runs)
  /\ Len(g.batch.runs) <= MaxRuns /\ Len(g.stack) <= MaxScissors
  /\ g.scissor \subseteq Screen
  /\ ToSet(fonts.recent) = {f \in Fonts : fonts.atlas[f] # 0}
  /\ \A i \in DOMAIN flying : flying[i].frame \in 1 .. frame

(* What a frame in flight shows: its draws in order, read from the buffers *)
(* and atlases as they are now.                                            *)
DrawShown(f, d) ==
  [i \in DOMAIN d.quads |->
     [quad |-> IF Appending THEN g.vbo[f.slot][d.kind][d.quads[i]] ELSE d.quads[i],
      font |-> IF Appending /\ d.tex # None THEN FontIn(d.tex) ELSE d.tex,
      kind |-> d.kind, pipe |-> d.pipe, clip |-> d.clip]]

Shown(f) == FlattenSeq([i \in DOMAIN f.list |-> DrawShown(f, f.list[i])])

InFlight == {flying[i] : i \in DOMAIN flying}
Count(f, kind) == Cardinality({n \in DOMAIN f.asked.quads : f.asked.quads[n].kind = kind})
Roomy(f) ==
  /\ Count(f, "rect") <= MaxQuads /\ Count(f, "image") <= MaxText
  /\ Count(f, "glyph") <= MaxText /\ Count(f, "glyph") <= MaxRuns

(* A frame that respects the buffers' limits shows every quad the scene    *)
(* submitted exactly once, and nothing else, for as long as the GPU may    *)
(* read it: whatever flushes cut the batches, whatever the next frame      *)
(* writes meanwhile, and whatever an earlier frame dropped.                *)
EveryQuadIsPaintedOnce ==
  \A f \in InFlight : LET shown == Shown(f) IN
    Roomy(f) =>
      /\ Len(shown) = Len(f.asked.quads)
      /\ \A n \in DOMAIN f.asked.quads :
           \E p \in DOMAIN shown : shown[p].quad = <<f.frame, n>>

(* Every quad is clipped by exactly the clips that were open when it was   *)
(* submitted, though the backend draws it later and gles3 skips the flush  *)
(* where a nested clip changes nothing, unless the frame nested deeper     *)
(* than the stack.                                                         *)
ClippedAsSubmitted ==
  \A f \in InFlight : LET shown == Shown(f) IN
    ~f.asked.deep =>
      \A p \in DOMAIN shown :
        LET n == shown[p].quad[2] IN shown[p].clip = f.asked.quads[n].clip

(* Quads are painted in the order of submission, except that a text may be *)
(* painted over a rect submitted after it in the same layer.  Over the     *)
(* flush at z-boundaries, images, and overlays that open a clip.           *)
PainterOrder ==
  \A f \in InFlight : LET shown == Shown(f) IN
    ~f.asked.deep => \A p, q \in DOMAIN shown :
      LET early == f.asked.quads[shown[q].quad[2]]
          late == f.asked.quads[shown[p].quad[2]]
      IN p < q /\ shown[p].quad[2] > shown[q].quad[2] =>
           early.kind = "glyph" /\ late.kind = "rect" /\ early.layer = late.layer

(* A label is drawn from the atlas of its own font, though atlases are     *)
(* destroyed and their handles reused in the middle of a frame, as long as *)
(* the frame's fonts fit the cache.                                        *)
GlyphsShowTheirFont ==
  \A f \in InFlight : LET shown == Shown(f)
                          used == {q.font : q \in ToSet(f.asked.quads)} \ {None} IN
    Cardinality(used) <= MaxFonts =>
      \A p \in DOMAIN shown :
        shown[p].font = f.asked.quads[shown[p].quad[2]].font

(* renderer.h: "subsequent submissions start a fresh batch that will draw  *)
(* ON TOP of what's already on the back buffer": a rect drawn after a      *)
(* flush is drawn as a rect, through the pipeline of its kind.             *)
DrawnAsSubmitted ==
  \A f \in InFlight : \A i \in DOMAIN f.list : f.list[i].pipe = f.list[i].kind
=============================================================================
