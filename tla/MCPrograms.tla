------------------------------- MODULE MCPrograms ------------------------------
(***************************************************************************)
(* Instances of Programs: each platform with each renderer that a build    *)
(* gives it, two fonts for one atlas and two icons of which one fills the  *)
(* cache.                                                                  *)
(***************************************************************************)
EXTENDS Programs

CONSTANTS f1, f2, i1, i2, p1, p2, p3

Build(plat, api) == [plat |-> plat, api |-> api]

MCBuilds ==
  {Build("win32", api) : api \in {"opengl3", "d3d9", "d3d11", "d3d12", "vulkan"}}
    \cup {Build(plat, "gles3") : plat \in {"x11", "wayland", "drm", "android", "macos"}}
    \cup {Build("nested", "none")}

MCCapabilities == {{}, {"pointer", "keyboard"}, {"touch"}}
MCIconBytes == [icon \in Icons |-> IF icon = i1 THEN 1 ELSE 2]

Interchangeable == Permutations(Params)
=============================================================================
