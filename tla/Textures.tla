-------------------------------- MODULE Textures -------------------------------
(***************************************************************************)
(* The textures of meek-ui and who keeps them: the atlases of font.c, the  *)
(* icon cache of widget_image.c, and the image of an <image> node.  A      *)
(* texture is the number of the context that it was made in, and 0 where   *)
(* there is none.                                                          *)
(*                                                                         *)
(* Both caches are sequences, the least recently used entry first.  World  *)
(* fields of this module: fonts, icons and image, which hold textures;     *)
(* live, how many textures exist; built, whether the pipelines that        *)
(* textures wait for are there; tex, what the last call returned.          *)
(***************************************************************************)
EXTENDS Backends

CONSTANTS
  Fonts,      \* families and sizes that labels ask for
  MaxFonts,   \* _FONT_INTERNAL__MAX_FONTS
  Icons,      \* paths that the icon cache is asked for
  IconBytes,  \* path -> size of the icon
  MaxIcons,   \* _WIDGET_IMAGE_INTERNAL__CACHE_MAX
  MaxBytes,   \* _WIDGET_IMAGE_INTERNAL__CACHE_MAX_BYTES
  NoFont, NoIcon

ASSUME TexturesAssumption ==
  /\ MaxFonts \in Nat \ {0} /\ MaxIcons \in Nat \ {0} /\ MaxBytes \in Nat
  /\ IconBytes \in [Icons -> Nat]

-----------------------------------------------------------------------------
(* One texture.  Where creating one fails, the code undoes what it did.    *)

Opengl3CreateAtlas   == Check
Opengl3CreateTexture == Check
Gles3CreateAtlas     == Check
Gles3CreateTexture   == Check
D3d9CreateAtlas      == Check \o Check
D3d9CreateTexture    == Check \o Check
D3d11CreateAtlas     == Check \o Check
D3d11CreateTexture   == Check \o Check
D3d12UploadTexture   == Check
VulkanUploadAtlas    == Check

AtlasCalls(api) ==
  CASE api = "opengl3" -> Opengl3CreateAtlas
    [] api = "gles3"   -> Gles3CreateAtlas
    [] api = "d3d9"    -> D3d9CreateAtlas
    [] api = "d3d11"   -> D3d11CreateAtlas
    [] api = "d3d12"   -> D3d12UploadTexture
    [] api = "vulkan"  -> VulkanUploadAtlas

TextureCalls(api) ==
  CASE api = "opengl3" -> Opengl3CreateTexture
    [] api = "gles3"   -> Gles3CreateTexture
    [] api = "d3d9"    -> D3d9CreateTexture
    [] api = "d3d11"   -> D3d11CreateTexture
    [] api = "d3d12"   -> D3d12UploadTexture

TxBuilt(w) ==
  {[v EXCEPT !.built = v.ok] : v \in Run({w}, IF w.built THEN <<>> ELSE TxProgram(w.api))}

Made(w, calls) ==
  {IF v.ok /\ v.ctx # 0 THEN [v EXCEPT !.tex = v.ctx, !.live = @ + 1]
   ELSE [v EXCEPT !.ok = TRUE, !.tex = 0] : v \in Run(TxBuilt(w), calls)}

CreateAtlas(w) == Made(w, AtlasCalls(w.api))

(* Vulkan has no images yet.                                               *)
CreateTexture(w) ==
  IF w.api = "vulkan" THEN {[w EXCEPT !.tex = 0]} ELSE Made(w, TextureCalls(w.api))

(* A name of a context that is gone may since name a texture of this one,  *)
(* which its owner then destroys in vain.                                  *)
Destroyed(w, tex) ==
  LET gone == [w EXCEPT !.live = @ - 1]
  IN  IF tex = 0 \/ w.live = 0 THEN {w}
      ELSE IF tex = w.ctx THEN {gone} ELSE {w, gone}

DestroyedAll(w, entries) ==
  FoldLeft(LAMBDA V, e : UNION {Destroyed(v, e.tex) : v \in V}, {w}, entries)

-----------------------------------------------------------------------------
(* font.c.                                                                 *)

Place(entries, key) == {i \in DOMAIN entries : entries[i].key = key}
Refreshed(entries, i) == Append(RemoveAt(entries, i), entries[i])

FontEvicted(w) ==
  IF Len(w.fonts) < MaxFonts THEN {w}
  ELSE {[v EXCEPT !.fonts = Tail(@)] : v \in Destroyed(w, w.fonts[1].tex)}

(* A font that cannot be rasterized keeps its place and is not tried again *)
(* until it is evicted.                                                    *)
Rasterize(w, font) ==
  {[v EXCEPT !.fonts = Append(@, [key |-> font, tex |-> v.tex])] :
     v \in UNION {CreateAtlas(u) \cup {[x EXCEPT !.tex = 0] : x \in Fine(Failed(u))} :
                    u \in FontEvicted(w)}}

FontAt(w, font) ==
  IF font = NoFont THEN {w}
  ELSE IF Place(w.fonts, font) = {} THEN Rasterize(w, font)
  ELSE {[w EXCEPT !.fonts = Refreshed(@, CHOOSE i \in Place(w.fonts, font) : TRUE)]}

(* Mutant: the atlases are left to the context that is about to go.        *)
DropGpuCache_Keeps(w) == {w}

DropGpuCache(w) == {[v EXCEPT !.fonts = <<>>] : v \in DestroyedAll(w, w.fonts)}

FontShutdown(w) == {[v EXCEPT !.fonts = <<>>] : v \in DestroyedAll(w, w.fonts)}

-----------------------------------------------------------------------------
(* The icon cache of widget_image.c.                                       *)

Bytes(entries) == FoldLeft(LAMBDA n, e : n + IconBytes[e.key], 0, entries)

(* How many of the oldest entries make room for so many bytes and a slot.  *)
Leaving(entries, bytes) ==
  CHOOSE k \in 0 .. Len(entries) :
    LET fits(n) == /\ Bytes(SubSeq(entries, n + 1, Len(entries))) + bytes <= MaxBytes
                   /\ Len(entries) - n < MaxIcons
    IN  fits(k) /\ \A n \in 0 .. k - 1 : ~fits(n)

AcquireSlot(w, bytes) ==
  LET k == Leaving(w.icons, bytes)
  IN  {[v EXCEPT !.icons = SubSeq(@, k + 1, Len(@))] :
         v \in DestroyedAll(w, SubSeq(w.icons, 1, k))}

(* Reading or decoding the file may fail, and then nothing is cached; an   *)
(* entry is made whether or not there is a texture for it.                 *)
GetOrLoad(w, icon) ==
  IF icon = NoIcon THEN {w}
  ELSE IF Place(w.icons, icon) # {}
  THEN {[w EXCEPT !.icons = Refreshed(@, CHOOSE i \in Place(w.icons, icon) : TRUE)]}
  ELSE Fine(Failed(w)) \cup
       IF IconBytes[icon] > MaxBytes THEN {w}
       ELSE {[v EXCEPT !.icons = Append(@, [key |-> icon, tex |-> v.tex])] :
               v \in UNION {CreateTexture(u) : u \in AcquireSlot(w, IconBytes[icon])}}

CacheShutdown(w) == {[v EXCEPT !.icons = <<>>] : v \in DestroyedAll(w, w.icons)}

-----------------------------------------------------------------------------
(* An <image> node, and its replacement by that of the next tree.          *)

(* The path is refused, or the file cannot be read or decoded.             *)
ImageUnread(w) == {[w EXCEPT !.tex = 0]}

ImageLoad(w) == ImageUnread(w) \cup CreateTexture(w)

(* image_on_destroy of the old node, once the new one is loaded.           *)
ImageReplaced(w) ==
  UNION {{[u EXCEPT !.image = v.tex] : u \in Destroyed(v, w.image)} : v \in ImageLoad(w)}

ImageDestroyed(w) == {[v EXCEPT !.image = 0] : v \in Destroyed(w, w.image)}

(* What is drawn makes the image pipeline, if there is a texture to draw.  *)
ImageDrawn(w, tex) ==
  IF tex = 0 \/ ImageReady(w) THEN {w}
  ELSE Fine(Run({w}, ImageProgram(w.api)))

Entries(w) == {w.fonts[i].tex : i \in DOMAIN w.fonts} \cup {w.icons[i].tex : i \in DOMAIN w.icons}
                \cup {w.image}

Owners(w) ==
  Cardinality({i \in DOMAIN w.fonts : w.fonts[i].tex # 0})
    + Cardinality({i \in DOMAIN w.icons : w.icons[i].tex # 0})
    + (IF w.image = 0 THEN 0 ELSE 1)
=============================================================================
